---- MODULE Spec2Model ----
(***************************************************************************)
(* OllamaTea: the request/response lifecycle of ollamatea.Session and      *)
(* ollamatea.EmbedSession under the Bubble Tea runtime.                    *)
(*                                                                         *)
(* The runtime is modelled as it schedules the code: Update runs on the    *)
(* single event loop, one message at a time; every tea.Cmd an Update       *)
(* returns runs on a goroutine of its own and sends the message it returns *)
(* to the event loop; tea.Batch runs its commands concurrently,            *)
(* tea.Sequence runs them one after the other.  The start commands         *)
(* (startGenerating, startEmbedding) read and write the session's fields   *)
(* from their goroutine, so each of their statements that touches a field  *)
(* is a step of its own.                                                   *)
(***************************************************************************)
EXTENDS Integers, Sequences, FiniteSets, TLC

\* ---- bounds of the model
MaxStarts == 2      \* StartGenerateMsg / StartEmbedMsg of its own ID a session handles
MaxChunks == 2      \* chunks one Generate call streams at most
MaxFetches == 2     \* fetchListMsg of its own ID a ModelChooser handles
MaxModels == 2      \* models the Ollama server lists at most

\* ---- program constants
RespChCap == 100    \* make(chan generateResponseMsg, 100)
OwnID == 1          \* the session's id, from nextSessionID()
OtherID == 2        \* the id of some other session
NilHandle == 0      \* a nil ctx / cancelFunc

NoError == "nil"
NoResponse == <<>>
Cmds == 1..MaxStarts
DoneReasons == {"stop", "length"}

VARIABLES
    \* ollamatea.Session
    Host,           \* "ok": url.Parse succeeds, "bad": it fails
    isGenerating,
    cancelFunc,     \* NilHandle, or the context the handle cancels
    ctx,            \* NilHandle, or the context (named by the command that made it)
    lastError,
    response,       \* accumulated response: the sequence of chunk texts
    respCh,         \* the buffered response channel
    \* the runtime around it
    inited,         \* the command returned by Session.Init has been dispatched
    cancelled,      \* contexts whose cancel function has been invoked
    sg,             \* the startGenerating commands, each on its goroutine
    nCmds,          \* start commands returned by Update so far
    listeners,      \* waitForResponse commands blocked on respCh
    msgs,           \* messages sent by commands, not yet taken by the event loop
    seqs,           \* tea.Sequence commands in progress: what each has left to run
    observe,        \* the deliveries to the parent are being recorded in parentLog
    parentLog,      \* public events the event loop has handed to the parent's Update
    stopped,        \* a StopGenerateMsg was handled and no StartGenerateMsg since
    lastID,         \* the ID of the message the latest Start/Stop/response case of Update looked at
    \* ollamatea.EmbedSession
    eHost,          \* "ok": url.Parse succeeds, "bad": it fails
    isEmbedding,
    eCancelFunc,
    eCtx,
    eLastError,
    eResponse,      \* NoResponse (nil), or the stored EmbedResponse
    \* the runtime around it
    eCancelled,     \* contexts whose cancel function has been invoked
    se,             \* the startEmbedding commands, each on its goroutine
    eNCmds,         \* start commands returned by Update so far
    eMsgs,          \* result messages sent, not yet taken by the event loop
    eApplied,       \* the results of this session's calls that Update has applied
    \* ollamatea.ModelChooser
    mcHost,         \* ollamaHost: "ok": url.Parse succeeds, "bad": it fails
    listedModels,
    selectedModel,  \* NoModel (nil), or the entry the pointer refers to
    selectedName,   \* NoName (""), or a name
    modelItems,     \* modelList: the items of the list.Model
    modelIndex,     \* modelList: the index of the highlighted item, from 0
    isFetching,
    mcLastError,
    \* the runtime around it
    mcFetches,      \* fetch commands returned by Update so far
    mcRunning,      \* FetchModelList calls running, each on its goroutine
    mcMsgs,         \* fetch results sent, not yet taken by the event loop
    mcCmd,          \* what the command returned by the latest Update consists of
    mcOp,           \* the latest SetSelectionByName, fetchListMsg, enter or foreign result
    mcFetched,      \* a list has been fetched: a response of its own ID was handled
    \* ollamatea.ChatPanelModel, on the Session above
    Prompt,         \* Session.Prompt
    inputText,      \* the value of the prompt input
    responseView,   \* the content of the response view
    choosingModel,
    cpCmd,          \* what the command returned for the latest send key consists of
    cpStartMsgs,    \* StartGenerateMsg sent by returned commands, not yet taken
    cpAborted,      \* a ModelChooserAbortedMsg was sent and is not yet taken
    cpSent,         \* flips whenever the send key is handled in chat mode
    \* the terminal
    screen,         \* what the latest View of each component returned
    \* a command-line tool
    cli,            \* the process of a tool: its arguments and files, where main stands,
                    \* what it printed, the status it exited with
    \* the package
    config,         \* the environment of the process, the package's default*
                    \* variables, and whether init() has run
    \* the model of the Session and its choice in the panel
    Model,          \* Session.Model
    Context,        \* Session.Context: the tokens that carry a conversation on
    cpFetchMsgs,    \* fetchListMsg sent by the panel's commands, not yet taken
    cpSelected,     \* ModelChooserSelectedMsg sent, not yet taken
    panicked,       \* Update dereferenced a nil pointer
    cpKey           \* flips with every tea.KeyMsg the panel's Update handles

sessVars == <<Host, isGenerating, cancelFunc, ctx, lastError, response, respCh>>
rtVars == <<inited, cancelled, sg, nCmds, listeners, msgs, seqs, observe, parentLog, stopped, lastID>>
embVars == <<eHost, isEmbedding, eCancelFunc, eCtx, eLastError, eResponse,
             eCancelled, se, eNCmds, eMsgs, eApplied>>
mcVars == <<mcHost, listedModels, selectedModel, selectedName, modelItems, modelIndex,
            isFetching, mcLastError, mcFetches, mcRunning, mcMsgs, mcCmd, mcOp, mcFetched>>
cpVars == <<Prompt, inputText, responseView, choosingModel, cpCmd, cpStartMsgs, cpAborted,
            cpSent>>
uiVars == <<screen, cli>>
libVars == <<config>>
pickVars == <<Model, Context, cpFetchMsgs, cpSelected, panicked, cpKey>>
vars == <<sessVars, rtVars, embVars, mcVars, cpVars, uiVars, libVars, pickVars>>

\* what the actions of one component leave alone
beyondSession == <<embVars, mcVars, cpVars, uiVars, libVars, pickVars>>
beyondEmbed == <<sessVars, rtVars, mcVars, cpVars, uiVars, libVars, pickVars>>
beyondChooser == <<sessVars, rtVars, embVars, cpVars, uiVars, libVars, pickVars>>

\* ---- messages

\* The text of chunk i of the call of command c: one letter naming (c, i), so
\* that a response is the sequence of the letters appended to it.
ChunkText(c, i) == << <<c, i>> >>

Msg(type, id, resp, done, reason, context) ==
    [type |-> type, ID |-> id, Response |-> resp, Done |-> done,
     DoneReason |-> reason, Context |-> context]

\* respFunc: the generateResponseMsg sent to respCh for a chunk of the stream
MakeChunk(c, i, done, reason) ==
    Msg("generateResponseMsg", OwnID, ChunkText(c, i), done,
        IF done THEN reason ELSE "", IF done THEN <<c, i>> ELSE <<>>)

makeGenerateDoneErrorMsg(id, err) ==
    Msg("GenerateDoneMsg", id, <<>>, FALSE, err, <<>>)

\* Cmdize(t) is a tea.Cmd; returned from a command as its tea.Msg, the event
\* loop receives the function value itself, not the message it wraps.
CmdizeAsMsg(m) ==
    [type |-> "tea.Cmd", ID |-> m.ID, Response |-> m.Response, Done |-> m.Done,
     DoneReason |-> m.DoneReason, Context |-> m.Context]

\* what startGenerating returns on a failure
StartErrorResult(id, err) == CmdizeAsMsg(makeGenerateDoneErrorMsg(id, err))

RespMsgOf(m) == Msg("GenerateResponseMsg", OwnID, m.Response, FALSE, "", <<>>)

\* a bug DoneMsgOf could have: the final chunk's text in place of the full response
DoneMsgOf_ChunkOnly(m, full) ==
    Msg("GenerateDoneMsg", OwnID, m.Response, FALSE, m.DoneReason, m.Context)

DoneMsgOf(m, full) == Msg("GenerateDoneMsg", OwnID, full, FALSE, m.DoneReason, m.Context)

WaitCmd == Msg("waitForResponse", OwnID, <<>>, FALSE, "", <<>>)

\* a bug DoneSequence could have: the listener is not started again
DoneSequence_NoRearm(m, full) == <<RespMsgOf(m), DoneMsgOf(m, full)>>

\* tea.Sequence(Cmdize(respMsg), Cmdize(doneMsg), waitForResponse(m.respCh))
DoneSequence(m, full) == <<RespMsgOf(m), DoneMsgOf(m, full), WaitCmd>>

\* ---- initial state: NewSession()

\* a start command: where its goroutine stands (pc), the context its call runs
\* under, the chunks its call has streamed, the error it ended with; and, noted
\* when Update returned it, whether the session was generating then (restart)
\* and the handle it held (held), kept until the command starts to run; a
\* command that has returned no longer refers to the context of its call
NewCmd == [pc |-> "none", callCtx |-> NilHandle, sent |-> 0, err |-> NoError,
           restart |-> FALSE, held |-> NilHandle]

\* startGeneratingCmd / startEmbeddingCmd: the command Update returns
StartCmd(generating, handle) ==
    [NewCmd EXCEPT !.pc = "guard", !.restart = generating, !.held = handle]

\* NewSession(), with Host drawn from hosts
SessionNew(hosts) ==
    /\ Host \in hosts
    /\ isGenerating = FALSE
    /\ cancelFunc = NilHandle
    /\ ctx = NilHandle
    /\ lastError = NoError
    /\ response = <<>>
    /\ respCh = <<>>
    /\ inited = FALSE
    /\ cancelled = {}
    /\ sg = [c \in Cmds |-> NewCmd]
    /\ nCmds = 0
    /\ listeners = 0
    /\ msgs = {}
    /\ seqs = {}
    /\ parentLog = <<>>
    /\ stopped = FALSE
    /\ lastID = NilHandle

\* NewEmbedSession(), with Host drawn from hosts
EmbedSessionNew(hosts) ==
    /\ eHost \in hosts
    /\ isEmbedding = FALSE
    /\ eCancelFunc = NilHandle
    /\ eCtx = NilHandle
    /\ eLastError = NoError
    /\ eResponse = NoResponse
    /\ eCancelled = {}
    /\ se = [c \in Cmds |-> NewCmd]
    /\ eNCmds = 0
    /\ eMsgs = {}
    /\ eApplied = <<>>

\* ---- ollamatea.ModelChooser: its values

NoModel == [Name |-> 0, Size |-> 0]     \* a nil *ListModelResponse
NoName == 0                             \* the empty name
ModelNames == 1..MaxModels              \* the names of the models a server lists
NameInputs == 0..(MaxModels + 1)        \* names asked for: "", a listed one, one never listed
Versions == 1..2                        \* the server's answers differ in the sizes reported

\* a ListModelResponse: the name, and the size the server reported
Entry(n, v) == [Name |-> n, Size |-> v]

\* the lists a fetch can deliver: no name twice
NameOrders ==
    UNION {{q \in [1..k -> ModelNames] : \A i, j \in 1..k : i # j => q[i] # q[j]} :
           k \in 0..MaxModels}

ModelLists == {[i \in 1..Len(q) |-> Entry(q[i], v)] : q \in NameOrders, v \in Versions}

NoOp == [op |-> "none", arg |-> 0, ret |-> FALSE, tick |-> FALSE]

\* NewModelChooser(ollamaHost), with the host drawn from hosts
NewModelChooser(hosts) ==
    /\ mcHost \in hosts
    /\ listedModels = <<>>
    /\ selectedModel = NoModel
    /\ selectedName = NoName
    /\ modelItems = <<>>
    /\ modelIndex = 0
    /\ isFetching = FALSE
    /\ mcLastError = NoError
    /\ mcFetches = 0
    /\ mcRunning = {}
    /\ mcMsgs = {}
    /\ mcCmd = <<>>
    /\ mcOp = NoOp
    /\ mcFetched = FALSE

\* ---- the package: its defaults

\* the settings that have a default, and the variable that overrides each
Settings == {"Host", "Model", "Prompt", "System"}
EnvName(k) ==
    CASE k = "Host" -> "OLLAMATEA_HOST"
      [] k = "Model" -> "OLLAMATEA_MODEL"
      [] k = "Prompt" -> "OLLAMATEA_PROMPT"
      [] k = "System" -> "OLLAMATEA_SYSTEM"

\* var ( defaultOllamaHost = ... )
BuiltIn ==
    [Host |-> "http://localhost:11434", Model |-> "llama3.2-vision:11b",
     Prompt |-> "", System |-> ""]

\* os.Getenv of a variable that is not set
Unset == ""

\* an environment in which none of the variables is set
NoEnviron ==
    [n \in {"OLLAMATEA_NOENV"} \cup {EnvName(k) : k \in Settings} |-> Unset]

\* the package after its init() in an empty environment
PackageLoaded == config = [environ |-> NoEnviron, defaults |-> BuiltIn, inited |-> TRUE]

\* ---- the terminal: what a View returns

Components == {"Session", "EmbedSession", "ModelChooser"}

\* a rendered string: the format it was made with, and what was put into it
Rendered(format, err, resp, items) ==
    [format |-> format, err |-> err, response |-> resp, items |-> items]

\* no View has been called
NotDrawn == Rendered("(not drawn)", NoError, <<>>, <<>>)
NothingDrawn == screen = [c \in Components |-> NotDrawn]

\* ---- the command-line tools: the process main runs in

Tools == {"ot-png-prompt", "ot-embed", "ot-model-chooser"}
Outcomes == {"ok", "err"}

\* what main meets: the flags given, whether each file operation and
\* Program.Run succeed, whether the Ollama server answers, and (chooser) the
\* key the user ends with
Env(tool, help, inArg, outArg, openIn, readIn, openOut, writeOut, run, backend, key) ==
    [tool |-> tool, help |-> help, inArg |-> inArg, outArg |-> outArg, openIn |-> openIn,
     readIn |-> readIn, openOut |-> openOut, writeOut |-> writeOut, run |-> run,
     backend |-> backend, key |-> key]

FileEnvs(tool) ==
    {Env(tool, help, inArg, outArg, openIn, readIn, openOut, writeOut, run, backend, "none") :
        help \in BOOLEAN, inArg \in {"", "-", "file"}, outArg \in {"", "file"},
        openIn \in Outcomes, readIn \in Outcomes, openOut \in Outcomes,
        writeOut \in Outcomes, run \in Outcomes, backend \in Outcomes}

ChooserEnvs ==
    {Env("ot-model-chooser", help, "", "", "ok", "ok", "ok", "ok", run, backend, key) :
        help \in BOOLEAN, run \in Outcomes, backend \in Outcomes,
        key \in {"enter", "esc", "ctrl+c"}}

Envs == FileEnvs("ot-png-prompt") \cup FileEnvs("ot-embed") \cup ChooserEnvs

\* the process at the first statement of main
Process(env) ==
    [env |-> env, pc |-> "args", out |-> <<>>, exit |-> <<>>, err |-> "none", data |-> <<>>]

\* no tool is running
NoProcess == cli = [Process(Env("", FALSE, "", "", "ok", "ok", "ok", "ok", "ok", "ok", "none"))
                       EXCEPT !.pc = "none"]

\* ---- ollamatea.ChatPanelModel: its values

NoText == ""                            \* the empty input, and DefaultPrompt()
InputTexts == {NoText, "p1", "p2"}      \* what the input can hold
SessionModel == 1                       \* Session.Model, the name of a model

\* NewChatPanel(session), on a new Session
NewChatPanel ==
    /\ Prompt = NoText
    /\ inputText = NoText
    /\ responseView = <<>>
    /\ choosingModel = FALSE
    /\ cpCmd = <<>>
    /\ cpStartMsgs = 0
    /\ cpAborted = FALSE
    /\ cpSent = FALSE
    /\ Model = SessionModel
    /\ Context = <<>>
    /\ cpFetchMsgs = 0
    /\ cpSelected = {}
    /\ cpKey = FALSE
    /\ panicked = FALSE

Init ==
    /\ SessionNew({"ok", "bad"})
    /\ observe = FALSE
    /\ EmbedSessionNew({"ok"})
    /\ NewModelChooser({"ok"})
    /\ NewChatPanel
    /\ NothingDrawn
    /\ NoProcess
    /\ PackageLoaded

\* ---- Session.Init: the parent dispatches the listener command

SessionInit ==
    /\ ~inited
    /\ inited' = TRUE
    /\ listeners' = listeners + 1
    /\ UNCHANGED <<sessVars, cancelled, sg, nCmds, msgs, seqs, observe, lastID, parentLog, stopped>>
    /\ UNCHANGED beyondSession

\* ---- Session.Update

\* a bug CancelCurrent could have: the handle is dropped without being invoked
CancelCurrent_NotInvoked ==
    /\ cancelled' = cancelled
    /\ cancelFunc' = NilHandle
    /\ ctx' = NilHandle
    /\ isGenerating' = FALSE

\* the cancellation both the start and the stop case perform
CancelCurrent ==
    /\ cancelled' = IF cancelFunc # NilHandle THEN cancelled \cup {cancelFunc} ELSE cancelled
    /\ cancelFunc' = NilHandle
    /\ ctx' = NilHandle
    /\ isGenerating' = FALSE

\* a bug Accepts could have: the ID of the message is not compared
Accepts_AnyID(id) == TRUE

\* if msg.ID != m.id { return m, nil }
Accepts(id) == id = OwnID

\* the ID Update notes it looked at (not noted while the parent's log is kept)
Noted(id) == IF observe THEN lastID ELSE id

\* case StartGenerateMsg, past the ID check
StartGenerateCase ==
    /\ nCmds < MaxStarts
    /\ IF isGenerating
         THEN CancelCurrent
         ELSE UNCHANGED <<cancelled, cancelFunc, ctx, isGenerating>>
    /\ nCmds' = nCmds + 1
    /\ sg' = [sg EXCEPT ![nCmds + 1] = StartCmd(isGenerating, cancelFunc)]
    /\ stopped' = FALSE
    /\ UNCHANGED <<Host, lastError, response, respCh, inited, listeners, msgs, seqs,
                   observe, parentLog>>

\* case StartGenerateMsg, msg.ID = m.id
UpdateStartGenerate ==
    /\ inited
    /\ Accepts(OwnID)
    /\ StartGenerateCase
    /\ lastID' = Noted(OwnID)
    /\ UNCHANGED beyondSession

\* a bug StopGenerateCase could have: the accumulated response is dropped
StopGenerateCase_ClearsResponse ==
    /\ CancelCurrent
    /\ stopped' = TRUE
    /\ response' = <<>>
    /\ UNCHANGED <<Host, lastError, respCh, inited, sg, nCmds, listeners, msgs,
                   seqs, observe, parentLog>>

\* case StopGenerateMsg, past the ID check
StopGenerateCase ==
    /\ CancelCurrent
    /\ stopped' = TRUE
    /\ UNCHANGED <<Host, lastError, response, respCh, inited, sg, nCmds, listeners, msgs,
                   seqs, observe, parentLog>>

\* case StopGenerateMsg, msg.ID = m.id
UpdateStopGenerate ==
    /\ inited
    /\ Accepts(OwnID)
    /\ StopGenerateCase
    /\ lastID' = Noted(OwnID)
    /\ UNCHANGED beyondSession

\* case generateResponseMsg, past the ID check
ResponseCase(m) ==
    /\ response' = response \o m.Response
    /\ IF ~m.Done
         THEN /\ msgs' = (msgs \ {m}) \cup {RespMsgOf(m)}
              /\ listeners' = listeners + 1
              /\ UNCHANGED <<isGenerating, seqs>>
         ELSE /\ isGenerating' = FALSE
              /\ msgs' = msgs \ {m}
              /\ seqs' = seqs \cup {DoneSequence(m, response')}
              /\ UNCHANGED listeners
    /\ UNCHANGED <<Host, cancelFunc, ctx, lastError, respCh, inited, cancelled, sg, nCmds,
                   observe, parentLog, stopped>>

\* case generateResponseMsg, msg.ID = m.id
UpdateResponse(m) ==
    /\ m \in msgs
    /\ m.type = "generateResponseMsg"
    /\ Accepts(m.ID)
    /\ ResponseCase(m)
    /\ lastID' = Noted(m.ID)
    /\ UNCHANGED beyondSession

\* the final chunk of a stream of the session OtherID
ForeignChunk == [MakeChunk(1, 1, TRUE, "stop") EXCEPT !.ID = OtherID]

\* a StartGenerateMsg, StopGenerateMsg or generateResponseMsg of another ID
UpdateForeignID ==
    /\ inited
    /\ lastID' = Noted(OtherID)
    /\ IF Accepts(OtherID)
         THEN StartGenerateCase \/ StopGenerateCase \/ ResponseCase(ForeignChunk)
         ELSE UNCHANGED <<sessVars, inited, cancelled, sg, nCmds, listeners, msgs, seqs,
                          observe, parentLog, stopped>>
    /\ UNCHANGED beyondSession

\* ---- Session.ClearResponse / ClearError, called by the parent

ClearResponse ==
    /\ response # <<>>
    /\ response' = <<>>
    /\ UNCHANGED <<Host, isGenerating, cancelFunc, ctx, lastError, respCh, inited, cancelled,
                   sg, nCmds, listeners, msgs, seqs, observe, lastID, parentLog, stopped>>
    /\ UNCHANGED beyondSession

ClearError ==
    /\ lastError # NoError
    /\ lastError' = NoError
    /\ UNCHANGED <<Host, isGenerating, cancelFunc, ctx, response, respCh, inited, cancelled,
                   sg, nCmds, listeners, msgs, seqs, observe, lastID, parentLog, stopped>>
    /\ UNCHANGED beyondSession

\* ---- startGenerating, on the goroutine of its command

\* if m.isGenerating { return nil }
SG_Guard(c) ==
    /\ sg[c].pc = "guard"
    /\ sg' = [sg EXCEPT ![c].pc = IF isGenerating THEN "done" ELSE "flag",
                       ![c].restart = FALSE, ![c].held = NilHandle]
    /\ UNCHANGED <<sessVars, inited, cancelled, nCmds, listeners, msgs, seqs, observe, lastID,
                   parentLog, stopped>>
    /\ UNCHANGED beyondSession

\* m.isGenerating = true
SG_SetFlag(c) ==
    /\ sg[c].pc = "flag"
    /\ isGenerating' = TRUE
    /\ sg' = [sg EXCEPT ![c].pc = "ctx"]
    /\ UNCHANGED <<Host, cancelFunc, ctx, lastError, response, respCh, inited, cancelled,
                   nCmds, listeners, msgs, seqs, observe, lastID, parentLog, stopped>>
    /\ UNCHANGED beyondSession

\* m.ctx, m.cancelFunc = context.WithCancel(context.Background())
SG_SetCtx(c) ==
    /\ sg[c].pc = "ctx"
    /\ ctx' = c
    /\ cancelFunc' = c
    /\ sg' = [sg EXCEPT ![c].pc = "issue"]
    /\ UNCHANGED <<Host, isGenerating, lastError, response, respCh, inited, cancelled,
                   nCmds, listeners, msgs, seqs, observe, lastID, parentLog, stopped>>
    /\ UNCHANGED beyondSession

\* the command ends with an error: m.lastError = err, and what it returns is sent
SG_Fail(c, err, clearFlag) ==
    /\ lastError' = err
    /\ isGenerating' = IF clearFlag THEN FALSE ELSE isGenerating
    /\ sg' = [sg EXCEPT ![c].pc = "done", ![c].err = err, ![c].callCtx = NilHandle]
    /\ msgs' = msgs \cup {StartErrorResult(OwnID, err)}

\* url.Parse(m.Host), then ollamaClient.Generate(m.ctx, req, respFunc) is entered
\* with the value m.ctx holds now; a nil context fails the request at once
SG_Issue(c) ==
    /\ sg[c].pc = "issue"
    /\ IF Host = "bad"
         THEN SG_Fail(c, "parse", TRUE)
         ELSE IF ctx = NilHandle
                THEN SG_Fail(c, "nilctx", FALSE)
                ELSE /\ sg' = [sg EXCEPT ![c].pc = "call", ![c].callCtx = ctx]
                     /\ UNCHANGED <<lastError, isGenerating, msgs>>
    /\ UNCHANGED <<Host, cancelFunc, ctx, response, respCh, inited, cancelled, nCmds,
                   listeners, seqs, observe, lastID, parentLog, stopped>>
    /\ UNCHANGED beyondSession

\* the stream delivers a chunk: respFunc sends it to respCh (blocking while the
\* channel is full); after the chunk with Done the call and the command return
\* nil.  The stream of a cancelled context delivers no further chunk.
CallChunk(c, done, reason) ==
    /\ sg[c].pc = "call"
    /\ sg[c].callCtx \notin cancelled
    /\ sg[c].sent < MaxChunks
    /\ sg[c].sent + 1 = MaxChunks => done
    /\ Len(respCh) < RespChCap
    /\ respCh' = Append(respCh, MakeChunk(c, sg[c].sent + 1, done, reason))
    /\ sg' = [sg EXCEPT ![c].sent = @ + 1, ![c].pc = IF done THEN "done" ELSE "call",
                       ![c].callCtx = IF done THEN NilHandle ELSE @]
    /\ UNCHANGED <<Host, isGenerating, cancelFunc, ctx, lastError, response, inited,
                   cancelled, nCmds, listeners, msgs, seqs, observe, lastID, parentLog, stopped>>
    /\ UNCHANGED beyondSession

\* Generate returns a transport error
CallFail(c) ==
    /\ sg[c].pc = "call"
    /\ sg[c].callCtx \notin cancelled
    /\ SG_Fail(c, "transport", FALSE)
    /\ UNCHANGED <<Host, cancelFunc, ctx, response, respCh, inited, cancelled, nCmds,
                   listeners, seqs, observe, lastID, parentLog, stopped>>
    /\ UNCHANGED beyondSession

\* Generate returns because its context was cancelled
CallCancelled(c) ==
    /\ sg[c].pc = "call"
    /\ sg[c].callCtx \in cancelled
    /\ SG_Fail(c, "canceled", FALSE)
    /\ UNCHANGED <<Host, cancelFunc, ctx, response, respCh, inited, cancelled, nCmds,
                   listeners, seqs, observe, lastID, parentLog, stopped>>
    /\ UNCHANGED beyondSession

\* ---- waitForResponse: a listener takes the head of respCh and sends it on

\* a bug ListenerRecv could have: the chunk queued last is taken first
ListenerRecv_TakesLast ==
    /\ listeners > 0
    /\ respCh # <<>>
    /\ listeners' = listeners - 1
    /\ msgs' = msgs \cup {respCh[Len(respCh)]}
    /\ respCh' = SubSeq(respCh, 1, Len(respCh) - 1)
    /\ UNCHANGED <<Host, isGenerating, cancelFunc, ctx, lastError, response, inited,
                   cancelled, sg, nCmds, seqs, observe, lastID, parentLog, stopped>>
    /\ UNCHANGED beyondSession

\* return <-m.respCh
ListenerRecv ==
    /\ listeners > 0
    /\ respCh # <<>>
    /\ listeners' = listeners - 1
    /\ msgs' = msgs \cup {Head(respCh)}
    /\ respCh' = Tail(respCh)
    /\ UNCHANGED <<Host, isGenerating, cancelFunc, ctx, lastError, response, inited,
                   cancelled, sg, nCmds, seqs, observe, lastID, parentLog, stopped>>
    /\ UNCHANGED beyondSession

\* ---- the event loop hands a public event to the parent's Update; forwarded
\* ---- to Session.Update it matches no case

IsPublic(m) == m.type \in {"GenerateResponseMsg", "GenerateDoneMsg", "tea.Cmd"}

Record(m) == IF observe THEN Append(parentLog, m) ELSE parentLog

DeliverCase(m) ==
    /\ m \in msgs
    /\ IsPublic(m)
    /\ msgs' = msgs \ {m}
    /\ parentLog' = Record(m)
    /\ UNCHANGED <<sessVars, inited, cancelled, sg, nCmds, listeners, seqs, observe, lastID, stopped>>

DeliverParent(m) ==
    /\ DeliverCase(m)
    /\ UNCHANGED beyondSession

\* a tea.Sequence runs its next command: a Cmdize'd event is sent and taken by
\* the event loop before the next one runs; waitForResponse blocks on respCh
SeqStepCase(s) ==
    /\ s \in seqs
    /\ IF Head(s) = WaitCmd
         THEN /\ listeners' = listeners + 1
              /\ seqs' = seqs \ {s}
              /\ UNCHANGED parentLog
         ELSE /\ parentLog' = Record(Head(s))
              /\ seqs' = (seqs \ {s}) \cup (IF Len(s) > 1 THEN {Tail(s)} ELSE {})
              /\ UNCHANGED listeners
    /\ UNCHANGED <<sessVars, inited, cancelled, sg, nCmds, msgs, observe, lastID, stopped>>

SeqStep(s) ==
    /\ SeqStepCase(s)
    /\ UNCHANGED beyondSession

Next ==
    \/ SessionInit
    \/ UpdateStartGenerate
    \/ UpdateStopGenerate
    \/ UpdateForeignID
    \/ \E m \in msgs : UpdateResponse(m)
    \/ ClearResponse
    \/ ClearError
    \/ \E c \in Cmds : SG_Guard(c)
    \/ \E c \in Cmds : SG_SetFlag(c)
    \/ \E c \in Cmds : SG_SetCtx(c)
    \/ \E c \in Cmds : SG_Issue(c)
    \/ \E c \in Cmds, done \in BOOLEAN, reason \in DoneReasons : CallChunk(c, done, reason)
    \/ \E c \in Cmds : CallFail(c)
    \/ \E c \in Cmds : CallCancelled(c)
    \/ ListenerRecv
    \/ \E m \in msgs : DeliverParent(m)
    \/ \E s \in seqs : SeqStep(s)

Spec == Init /\ [][Next]_vars

\* ======================================================================
\* ollamatea.EmbedSession

\* the EmbedResponse the call of command c returns
EmbeddingOf(c) == <<"embedding", c>>

EMsg(type, id, resp, err, call) ==
    [type |-> type, ID |-> id, Response |-> resp, Error |-> err, call |-> call]

makeEmbedResponseMsg(id, resp, call) == EMsg("EmbedResponseMsg", id, resp, NoError, call)

makeEmbedErrorMsg(id, err, call) == EMsg("EmbedErrorMsg", id, NoResponse, err, call)

\* results of the calls of another EmbedSession, OtherID
ForeignResults ==
    {makeEmbedResponseMsg(OtherID, EmbeddingOf(NilHandle), NilHandle),
     makeEmbedErrorMsg(OtherID, "transport", NilHandle)}

\* the cancellation both the start and the stop case perform
ECancelCurrent ==
    /\ eCancelled' = IF eCancelFunc # NilHandle THEN eCancelled \cup {eCancelFunc}
                                                ELSE eCancelled
    /\ eCancelFunc' = NilHandle
    /\ eCtx' = NilHandle
    /\ isEmbedding' = FALSE

\* case StartEmbedMsg, msg.ID = m.id
UpdateStartEmbed ==
    /\ eNCmds < MaxStarts
    /\ IF isEmbedding
         THEN ECancelCurrent
         ELSE UNCHANGED <<eCancelled, eCancelFunc, eCtx, isEmbedding>>
    /\ eNCmds' = eNCmds + 1
    /\ se' = [se EXCEPT ![eNCmds + 1] = StartCmd(FALSE, NilHandle)]
    /\ UNCHANGED <<eHost, eLastError, eResponse, eMsgs, eApplied>>
    /\ UNCHANGED beyondEmbed

\* a bug UpdateStopEmbed could have: stopping also drops the stored result
UpdateStopEmbed_ClearsResult ==
    /\ ECancelCurrent
    /\ eResponse' = NoResponse
    /\ eLastError' = NoError
    /\ UNCHANGED <<eHost, se, eNCmds, eMsgs, eApplied>>
    /\ UNCHANGED beyondEmbed

\* case StopEmbedMsg, msg.ID = m.id
UpdateStopEmbed ==
    /\ ECancelCurrent
    /\ UNCHANGED <<eHost, eLastError, eResponse, se, eNCmds, eMsgs, eApplied>>
    /\ UNCHANGED beyondEmbed

\* a StartEmbedMsg or StopEmbedMsg of another ID
UpdateEmbedForeignID ==
    /\ UNCHANGED vars

\* a result of another session's call reaches the event loop
ForeignResultSent(m) ==
    /\ m \in ForeignResults
    /\ m \notin eMsgs
    /\ eMsgs' = eMsgs \cup {m}
    /\ UNCHANGED <<eHost, isEmbedding, eCancelFunc, eCtx, eLastError, eResponse,
                   eCancelled, se, eNCmds, eApplied>>
    /\ UNCHANGED beyondEmbed

\* what Update notes of a result of this session's own calls
Applied(m) ==
    IF m.ID = OwnID
      THEN Append(eApplied, [call |-> m.call, latest |-> eNCmds, Error |-> m.Error])
      ELSE eApplied

\* case EmbedResponseMsg
ApplyEmbedResponse(m) ==
    /\ eResponse' = m.Response
    /\ eLastError' = NoError

\* a bug ApplyEmbedError could have: the stale response is kept
ApplyEmbedError_KeepsResponse(m) ==
    /\ eResponse' = eResponse
    /\ eLastError' = m.Error

\* case EmbedErrorMsg
ApplyEmbedError(m) ==
    /\ eResponse' = NoResponse
    /\ eLastError' = m.Error

\* case EmbedResponseMsg / case EmbedErrorMsg: neither looks at msg.ID
UpdateEmbedResult(m) ==
    /\ m \in eMsgs
    /\ eMsgs' = eMsgs \ {m}
    /\ IF m.type = "EmbedResponseMsg" THEN ApplyEmbedResponse(m) ELSE ApplyEmbedError(m)
    /\ eApplied' = Applied(m)
    /\ UNCHANGED <<eHost, isEmbedding, eCancelFunc, eCtx, eCancelled, se, eNCmds>>
    /\ UNCHANGED beyondEmbed

\* EmbedSession.ClearResponse / ClearError, called by the parent
EClearResponse ==
    /\ eResponse # NoResponse
    /\ eResponse' = NoResponse
    /\ UNCHANGED <<eHost, isEmbedding, eCancelFunc, eCtx, eLastError, eCancelled, se,
                   eNCmds, eMsgs, eApplied>>
    /\ UNCHANGED beyondEmbed

EClearError ==
    /\ eLastError # NoError
    /\ eLastError' = NoError
    /\ UNCHANGED <<eHost, isEmbedding, eCancelFunc, eCtx, eResponse, eCancelled, se,
                   eNCmds, eMsgs, eApplied>>
    /\ UNCHANGED beyondEmbed

\* ---- startEmbedding, on the goroutine of its command

\* if s.isEmbedding { return nil }
SE_Guard(c) ==
    /\ se[c].pc = "guard"
    /\ se' = [se EXCEPT ![c].pc = IF isEmbedding THEN "done" ELSE "flag"]
    /\ UNCHANGED <<eHost, isEmbedding, eCancelFunc, eCtx, eLastError, eResponse,
                   eCancelled, eNCmds, eMsgs, eApplied>>
    /\ UNCHANGED beyondEmbed

\* s.isEmbedding = true
SE_SetFlag(c) ==
    /\ se[c].pc = "flag"
    /\ isEmbedding' = TRUE
    /\ se' = [se EXCEPT ![c].pc = "ctx"]
    /\ UNCHANGED <<eHost, eCancelFunc, eCtx, eLastError, eResponse, eCancelled, eNCmds,
                   eMsgs, eApplied>>
    /\ UNCHANGED beyondEmbed

\* s.ctx, s.cancelFunc = context.WithCancel(context.Background())
SE_SetCtx(c) ==
    /\ se[c].pc = "ctx"
    /\ eCtx' = c
    /\ eCancelFunc' = c
    /\ se' = [se EXCEPT ![c].pc = "issue"]
    /\ UNCHANGED <<eHost, isEmbedding, eLastError, eResponse, eCancelled, eNCmds, eMsgs,
                   eApplied>>
    /\ UNCHANGED beyondEmbed

\* the command ends with an error: s.lastError = err, return makeEmbedErrorMsg
SE_Fail(c, err, clearFlag) ==
    /\ eLastError' = err
    /\ isEmbedding' = IF clearFlag THEN FALSE ELSE isEmbedding
    /\ se' = [se EXCEPT ![c].pc = "done", ![c].err = err, ![c].callCtx = NilHandle]
    /\ eMsgs' = eMsgs \cup {makeEmbedErrorMsg(OwnID, err, c)}

\* url.Parse(s.Host), then ollamaClient.Embed(s.ctx, req) is entered with the
\* value s.ctx holds now; a nil context fails the request at once
SE_Issue(c) ==
    /\ se[c].pc = "issue"
    /\ IF eHost = "bad"
         THEN SE_Fail(c, "parse", TRUE)
         ELSE IF eCtx = NilHandle
                THEN SE_Fail(c, "nilctx", FALSE)
                ELSE /\ se' = [se EXCEPT ![c].pc = "call", ![c].callCtx = eCtx]
                     /\ UNCHANGED <<eLastError, isEmbedding, eMsgs>>
    /\ UNCHANGED <<eHost, eCancelFunc, eCtx, eResponse, eCancelled, eNCmds, eApplied>>
    /\ UNCHANGED beyondEmbed

\* Embed returns the response: return makeEmbedResponseMsg(s.id, resp)
EmbedCallReturns(c) ==
    /\ se[c].pc = "call"
    /\ se[c].callCtx \notin eCancelled
    /\ se' = [se EXCEPT ![c].pc = "done", ![c].callCtx = NilHandle]
    /\ eMsgs' = eMsgs \cup {makeEmbedResponseMsg(OwnID, EmbeddingOf(c), c)}
    /\ UNCHANGED <<eHost, isEmbedding, eCancelFunc, eCtx, eLastError, eResponse,
                   eCancelled, eNCmds, eApplied>>
    /\ UNCHANGED beyondEmbed

\* Embed returns a transport error
EmbedCallFail(c) ==
    /\ se[c].pc = "call"
    /\ se[c].callCtx \notin eCancelled
    /\ SE_Fail(c, "transport", FALSE)
    /\ UNCHANGED <<eHost, eCancelFunc, eCtx, eResponse, eCancelled, eNCmds, eApplied>>
    /\ UNCHANGED beyondEmbed

\* Embed returns because its context was cancelled
EmbedCallCancelled(c) ==
    /\ se[c].pc = "call"
    /\ se[c].callCtx \in eCancelled
    /\ SE_Fail(c, "canceled", FALSE)
    /\ UNCHANGED <<eHost, eCancelFunc, eCtx, eResponse, eCancelled, eNCmds, eApplied>>
    /\ UNCHANGED beyondEmbed

EmbedNext ==
    \/ UpdateStartEmbed
    \/ UpdateStopEmbed
    \/ UpdateEmbedForeignID
    \/ \E m \in ForeignResults : ForeignResultSent(m)
    \/ \E m \in eMsgs : UpdateEmbedResult(m)
    \/ EClearResponse
    \/ EClearError
    \/ \E c \in Cmds : SE_Guard(c)
    \/ \E c \in Cmds : SE_SetFlag(c)
    \/ \E c \in Cmds : SE_SetCtx(c)
    \/ \E c \in Cmds : SE_Issue(c)
    \/ \E c \in Cmds : EmbedCallReturns(c)
    \/ \E c \in Cmds : EmbedCallFail(c)
    \/ \E c \in Cmds : EmbedCallCancelled(c)

EmbedInit ==
    /\ SessionNew({"ok"})
    /\ observe = FALSE
    /\ EmbedSessionNew({"ok", "bad"})
    /\ NewModelChooser({"ok"})
    /\ NewChatPanel
    /\ NothingDrawn
    /\ NoProcess
    /\ PackageLoaded

EmbedSpec == EmbedInit /\ [][EmbedNext]_vars

\* the Session with the parent's deliveries recorded
ObsInit ==
    /\ SessionNew({"ok", "bad"})
    /\ observe = TRUE
    /\ EmbedSessionNew({"ok"})
    /\ NewModelChooser({"ok"})
    /\ NewChatPanel
    /\ NothingDrawn
    /\ NoProcess
    /\ PackageLoaded

ObsSpec == ObsInit /\ [][Next]_vars

\* the Session under the scheduling the runtime gives: a runnable goroutine
\* runs, a message sent is taken by the event loop
FairSpec ==
    /\ Spec
    /\ WF_vars(ListenerRecv)
    /\ WF_vars(\E m \in msgs : UpdateResponse(m))
    /\ WF_vars(\E m \in msgs : DeliverParent(m))
    /\ WF_vars(\E s \in seqs : SeqStep(s))

\* ======================================================================
\* ollamatea.ModelChooser

MaxOf(S) == CHOOSE x \in S : \A y \in S : y <= x
MinOf(S) == CHOOSE x \in S : \A y \in S : x <= y

\* what a command consists of: an event it sends, or a call it makes
OutMsg(type, id, sel, err) ==
    [type |-> type, ID |-> id, OllamaHost |-> mcHost, Selection |-> sel, Error |-> err]

\* startFetchingCmd(), and the spinner's tick batched with it
FetchCmd == OutMsg("FetchModelList", OwnID, NoModel, NoError)
TickCmd == OutMsg("spinner.Tick", OwnID, NoModel, NoError)

\* FetchModelListResponseMsg / FetchModelListErrorMsg, of the fetch command req
FResult(type, id, models, err, req) ==
    [type |-> type, ID |-> id, Models |-> models, Error |-> err, req |-> req]

\* results of the fetches of another ModelChooser, OtherID
ForeignFetchResults ==
    {FResult("FetchModelListResponseMsg", OtherID, <<Entry(1, 1)>>, NoError, 0),
     FResult("FetchModelListErrorMsg", OtherID, <<>>, "transport", 0)}

\* the call noted as the latest one
Op(name, arg, ret) == [op |-> name, arg |-> arg, ret |-> ret, tick |-> ~mcOp.tick]

\* makeModelChooserListItem(index, model)
makeModelChooserListItem(index, model) ==
    [index |-> index, title |-> model.Name, desc |-> model.Size]

\* modelList.SelectedItem(): the highlighted item, if there is one
HasSelectedItem == modelIndex < Len(modelItems)
SelectedItem == modelItems[modelIndex + 1]

\* ---- SetSelectionByName(name)

\* the entries of listedModels named name
Named(name) == {i \in 1..Len(listedModels) : listedModels[i].Name = name}

\* what SetSelectionByName(name) returns
SetSelectionByNameReturns(name) == Len(listedModels) = 0 \/ Named(name) # {}

\* what SetSelectionByName(name) does to the chooser
SetSelectionByNameCase(name) ==
    IF Len(listedModels) = 0
      THEN /\ selectedName' = name
           /\ UNCHANGED <<selectedModel, modelIndex>>
      ELSE IF Named(name) # {}
             THEN /\ selectedModel' = listedModels[MinOf(Named(name))]
                  /\ modelIndex' = MinOf(Named(name)) - 1
                  /\ selectedName' = name
             ELSE UNCHANGED <<selectedModel, modelIndex, selectedName>>

SetSelectionByName(name) ==
    /\ SetSelectionByNameCase(name)
    /\ mcOp' = Op("SetSelectionByName", name, SetSelectionByNameReturns(name))
    /\ UNCHANGED <<mcHost, listedModels, modelItems, isFetching, mcLastError, mcFetches,
                   mcRunning, mcMsgs, mcCmd, mcFetched>>
    /\ UNCHANGED beyondChooser

\* ---- ModelChooser.Update

\* a bug ChooserAccepts could have: the ID of the message is not compared
ChooserAccepts_AnyID(id) == TRUE

\* if msg.ID != m.id { return m, nil }
ChooserAccepts(id) == id = OwnID

\* case fetchListMsg, on the fields of the chooser
FetchListCase(id) ==
    /\ mcOp' = Op("fetchListMsg", id, FALSE)
    /\ IF ChooserAccepts(id)
         THEN /\ mcFetches < MaxFetches
              /\ isFetching' = TRUE
              /\ mcFetches' = mcFetches + 1
              /\ mcRunning' = mcRunning \cup {mcFetches + 1}
              /\ mcCmd' = <<FetchCmd, TickCmd>>
         ELSE /\ mcCmd' = <<>>
              /\ UNCHANGED <<isFetching, mcFetches, mcRunning>>
    /\ UNCHANGED <<mcHost, listedModels, selectedModel, selectedName, modelItems,
                   modelIndex, mcLastError, mcMsgs, mcFetched>>

\* case fetchListMsg
UpdateFetchList(id) ==
    /\ FetchListCase(id)
    /\ UNCHANGED beyondChooser

\* the entries the loop of the response case matches
Matching(models) ==
    {i \in 1..Len(models) :
        \/ selectedModel # NoModel /\ models[i].Name = selectedModel.Name
        \/ selectedName # NoName /\ models[i].Name = selectedName}

\* a bug SelectedIndexOf could have: the name asked for is not looked up
SelectedIndexOf_ModelOnly(models) ==
    LET M == {i \in 1..Len(models) :
                 selectedModel # NoModel /\ models[i].Name = selectedModel.Name}
    IN  IF M = {} THEN -1 ELSE MaxOf(M) - 1

\* selectedIndex after the loop: the last entry that matches, or -1
SelectedIndexOf(models) ==
    IF Matching(models) = {} THEN -1 ELSE MaxOf(Matching(models)) - 1

\* a bug FetchResponseCase could have: the items shown are not replaced
FetchResponseCase_KeepsItems(m) ==
    /\ isFetching' = FALSE
    /\ listedModels' = m.Models
    /\ mcLastError' = NoError
    /\ IF SelectedIndexOf(m.Models) < 0
         THEN /\ selectedModel' = NoModel
              /\ UNCHANGED <<modelIndex, selectedName>>
         ELSE /\ modelIndex' = SelectedIndexOf(m.Models)
              /\ selectedName' = m.Models[SelectedIndexOf(m.Models) + 1].Name
              /\ UNCHANGED selectedModel
    /\ UNCHANGED modelItems
    /\ mcCmd' = <<>>
    /\ mcFetched' = TRUE

\* case FetchModelListResponseMsg, past the ID check; SetItems keeps the index
FetchResponseCase(m) ==
    /\ isFetching' = FALSE
    /\ listedModels' = m.Models
    /\ mcLastError' = NoError
    /\ IF SelectedIndexOf(m.Models) < 0
         THEN /\ selectedModel' = NoModel
              /\ UNCHANGED <<modelIndex, selectedName>>
         ELSE /\ modelIndex' = SelectedIndexOf(m.Models)
              /\ selectedName' = m.Models[SelectedIndexOf(m.Models) + 1].Name
              /\ UNCHANGED selectedModel
    /\ modelItems' = [i \in 1..Len(m.Models) |-> makeModelChooserListItem(i - 1, m.Models[i])]
    /\ mcCmd' = <<>>
    /\ mcFetched' = TRUE

\* a bug FetchErrorCase could have: the list of the failed fetch replaces the old one
FetchErrorCase_DropsList(m) ==
    /\ isFetching' = FALSE
    /\ mcLastError' = m.Error
    /\ listedModels' = m.Models
    /\ selectedModel' = NoModel
    /\ mcCmd' = <<>>
    /\ UNCHANGED <<selectedName, modelItems, modelIndex, mcFetched>>

\* case FetchModelListErrorMsg, past the ID check
FetchErrorCase(m) ==
    /\ isFetching' = FALSE
    /\ mcLastError' = m.Error
    /\ mcCmd' = <<>>
    /\ UNCHANGED <<listedModels, selectedModel, selectedName, modelItems, modelIndex,
                   mcFetched>>

\* case FetchModelListResponseMsg / case FetchModelListErrorMsg
UpdateFetchResult(m) ==
    /\ m \in mcMsgs
    /\ mcMsgs' = mcMsgs \ {m}
    /\ IF ~ChooserAccepts(m.ID)
         THEN /\ mcCmd' = <<>>
              /\ UNCHANGED <<listedModels, selectedModel, selectedName, modelItems,
                             modelIndex, isFetching, mcLastError, mcFetched>>
         ELSE IF m.type = "FetchModelListResponseMsg"
                THEN FetchResponseCase(m)
                ELSE FetchErrorCase(m)
    /\ mcOp' = IF m.ID = OwnID THEN mcOp ELSE Op(m.type, m.ID, FALSE)
    /\ UNCHANGED <<mcHost, mcFetches, mcRunning>>
    /\ UNCHANGED beyondChooser

\* case tea.KeyMsg, "esc"
UpdateKeyEsc ==
    /\ mcCmd' = <<OutMsg("ModelChooserAbortedMsg", OwnID, NoModel, mcLastError)>>
    /\ UNCHANGED <<mcHost, listedModels, selectedModel, selectedName, modelItems,
                   modelIndex, isFetching, mcLastError, mcFetches, mcRunning, mcMsgs,
                   mcOp, mcFetched>>
    /\ UNCHANGED beyondChooser

\* a bug EnterCase could have: the entry is taken at the start of the list
EnterCase_FirstEntry ==
    IF ~HasSelectedItem
      THEN /\ mcLastError' = "bad cast"
           /\ mcCmd' = <<>>
           /\ UNCHANGED selectedModel
      ELSE /\ selectedModel' = listedModels[1]
           /\ mcCmd' = <<OutMsg("ModelChooserSelectedMsg", OwnID, listedModels[1], NoError)>>
           /\ UNCHANGED mcLastError

\* a bug EnterCase could have: without a highlighted item the key is ignored
EnterCase_Silent ==
    IF ~HasSelectedItem
      THEN /\ mcCmd' = <<>>
           /\ UNCHANGED <<selectedModel, mcLastError>>
      ELSE /\ selectedModel' = listedModels[SelectedItem.index + 1]
           /\ mcCmd' = <<OutMsg("ModelChooserSelectedMsg", OwnID,
                                listedModels[SelectedItem.index + 1], NoError)>>
           /\ UNCHANGED mcLastError

\* case tea.KeyMsg, "enter"
EnterCase ==
    IF ~HasSelectedItem
      THEN /\ mcLastError' = "bad cast"
           /\ mcCmd' = <<>>
           /\ UNCHANGED selectedModel
      ELSE IF SelectedItem.index >= Len(listedModels)
             THEN /\ mcLastError' = "bad index"
                  /\ mcCmd' = <<>>
                  /\ UNCHANGED selectedModel
             ELSE /\ selectedModel' = listedModels[SelectedItem.index + 1]
                  /\ mcCmd' = <<OutMsg("ModelChooserSelectedMsg", OwnID,
                                       listedModels[SelectedItem.index + 1], NoError)>>
                  /\ UNCHANGED mcLastError

UpdateKeyEnter ==
    /\ mcOp' = Op("enter", 0, FALSE)
    /\ EnterCase
    /\ UNCHANGED <<mcHost, listedModels, selectedName, modelItems, modelIndex, isFetching,
                   mcFetches, mcRunning, mcMsgs, mcFetched>>
    /\ UNCHANGED beyondChooser

\* case tea.KeyMsg, any other key: modelList.Update(msg) moves the highlight
\* up or down within the items
UpdateKeyMove(d) ==
    /\ modelIndex' = IF modelIndex + d \in 0..(Len(modelItems) - 1)
                       THEN modelIndex + d ELSE modelIndex
    /\ mcCmd' = <<>>
    /\ UNCHANGED <<mcHost, listedModels, selectedModel, selectedName, modelItems,
                   isFetching, mcLastError, mcFetches, mcRunning, mcMsgs, mcOp, mcFetched>>
    /\ UNCHANGED beyondChooser

\* ---- FetchModelList(ollamaHost, id), on the goroutine of its command

\* List returns the models and the command hands its message to the event
\* loop, whose channel is unbuffered: one message is handed over at a time (a
\* command that waits to hand over is not told from one still running)
FetchReturns(n, models) ==
    /\ n \in mcRunning
    /\ mcHost = "ok"
    /\ mcMsgs = {}
    /\ mcRunning' = mcRunning \ {n}
    /\ mcMsgs' = mcMsgs \cup {FResult("FetchModelListResponseMsg", OwnID, models, NoError, n)}
    /\ UNCHANGED <<mcHost, listedModels, selectedModel, selectedName, modelItems,
                   modelIndex, isFetching, mcLastError, mcFetches, mcCmd, mcOp, mcFetched>>
    /\ UNCHANGED beyondChooser

\* url.Parse fails, or List returns an error
FetchFails(n) ==
    /\ n \in mcRunning
    /\ mcMsgs = {}
    /\ mcRunning' = mcRunning \ {n}
    /\ mcMsgs' = mcMsgs \cup {FResult("FetchModelListErrorMsg", OwnID, <<>>,
                                     IF mcHost = "bad" THEN "parse" ELSE "transport", n)}
    /\ UNCHANGED <<mcHost, listedModels, selectedModel, selectedName, modelItems,
                   modelIndex, isFetching, mcLastError, mcFetches, mcCmd, mcOp, mcFetched>>
    /\ UNCHANGED beyondChooser

\* a result of another chooser's fetch reaches the event loop
ForeignFetchResultSent(m) ==
    /\ m \in ForeignFetchResults
    /\ mcMsgs = {}
    /\ mcMsgs' = mcMsgs \cup {m}
    /\ UNCHANGED <<mcHost, listedModels, selectedModel, selectedName, modelItems,
                   modelIndex, isFetching, mcLastError, mcFetches, mcRunning, mcCmd, mcOp,
                   mcFetched>>
    /\ UNCHANGED beyondChooser

ChooserNext ==
    \/ \E name \in NameInputs : SetSelectionByName(name)
    \/ \E id \in {OwnID, OtherID} : UpdateFetchList(id)
    \/ \E m \in mcMsgs : UpdateFetchResult(m)
    \/ UpdateKeyEsc
    \/ UpdateKeyEnter
    \/ \E d \in {-1, 1} : UpdateKeyMove(d)
    \/ \E n \in 1..MaxFetches, models \in ModelLists : FetchReturns(n, models)
    \/ \E n \in 1..MaxFetches : FetchFails(n)
    \/ \E m \in ForeignFetchResults : ForeignFetchResultSent(m)

ChooserInit ==
    /\ SessionNew({"ok"})
    /\ observe = FALSE
    /\ EmbedSessionNew({"ok"})
    /\ NewModelChooser({"ok", "bad"})
    /\ NewChatPanel
    /\ NothingDrawn
    /\ NoProcess
    /\ PackageLoaded

ChooserSpec == ChooserInit /\ [][ChooserNext]_vars

\* ======================================================================
\* ollamatea.ChatPanelModel, driving its Session.  The fetchListMsg the
\* panel returns when the chooser is opened is left in flight here: the
\* chooser's fetches are the subject of ChooserSpec.

StartMsgCmd == OutMsg("StartGenerateMsg", OwnID, NoModel, NoError)

\* a bug SendPromptCase could have: the accumulated response is kept
SendPromptCase_KeepsResponse ==
    IF inputText = NoText \/ Prompt = inputText
      THEN /\ cpCmd' = <<>>
           /\ UNCHANGED <<Prompt, response, responseView, cpStartMsgs>>
      ELSE /\ cpStartMsgs + nCmds < MaxStarts
           /\ Prompt' = inputText
           /\ cpCmd' = <<StartMsgCmd>>
           /\ cpStartMsgs' = cpStartMsgs + 1
           /\ UNCHANGED <<response, responseView>>

\* handleChattingKeyMsg, case SendPrompt
SendPromptCase ==
    IF inputText = NoText \/ Prompt = inputText
      THEN /\ cpCmd' = <<>>
           /\ UNCHANGED <<Prompt, response, responseView, cpStartMsgs>>
      ELSE /\ cpStartMsgs + nCmds < MaxStarts
           /\ Prompt' = inputText
           /\ response' = <<>>
           /\ responseView' = <<>>
           /\ cpCmd' = <<StartMsgCmd>>
           /\ cpStartMsgs' = cpStartMsgs + 1

\* case tea.KeyMsg in chat mode, the send key
ChatSendKey ==
    /\ ~choosingModel
    /\ SendPromptCase
    /\ cpSent' = ~cpSent
    /\ UNCHANGED <<inputText, choosingModel, cpAborted>>
    /\ UNCHANGED <<Host, isGenerating, cancelFunc, ctx, lastError, respCh>>
    /\ UNCHANGED <<rtVars, embVars, uiVars, libVars, pickVars, mcVars>>

\* case tea.KeyMsg in chat mode, any other key: the textarea takes it
ChatTypeKey(v) ==
    /\ ~choosingModel
    /\ inputText' = v
    /\ UNCHANGED <<Prompt, responseView, choosingModel, cpCmd, cpStartMsgs, cpAborted, cpSent>>
    /\ UNCHANGED <<sessVars, rtVars, embVars, uiVars, libVars, pickVars, mcVars>>

\* handleChattingKeyMsg, case ChooseModel, on the fields of panel and chooser
ChooseModelCase ==
    /\ ~choosingModel
    /\ choosingModel' = TRUE
    /\ SetSelectionByNameCase(Model)
    /\ UNCHANGED <<mcHost, listedModels, modelItems, isFetching, mcLastError, mcFetches,
                   mcRunning, mcMsgs, mcCmd, mcOp, mcFetched>>
    /\ UNCHANGED <<Prompt, inputText, responseView, cpCmd, cpStartMsgs, cpAborted, cpSent>>
    /\ UNCHANGED <<sessVars, rtVars, embVars, uiVars, libVars>>

\* case tea.KeyMsg in chat mode, the ChooseModel key; the command returned
\* sends the chooser's fetchListMsg
ChatChooseModelKey ==
    /\ ChooseModelCase
    /\ UNCHANGED pickVars

\* case tea.KeyMsg while choosing: the chooser takes the key; on esc it
\* returns the ModelChooserAbortedMsg
ChatEscWhileChoosing ==
    /\ choosingModel
    /\ mcCmd' = <<OutMsg("ModelChooserAbortedMsg", OwnID, NoModel, mcLastError)>>
    /\ cpAborted' = TRUE
    /\ UNCHANGED <<mcHost, listedModels, selectedModel, selectedName, modelItems,
                   modelIndex, isFetching, mcLastError, mcFetches, mcRunning, mcMsgs,
                   mcOp, mcFetched>>
    /\ UNCHANGED <<Prompt, inputText, responseView, choosingModel, cpCmd, cpStartMsgs,
                   cpSent>>
    /\ UNCHANGED <<sessVars, rtVars, embVars, uiVars, libVars, pickVars>>

\* case ModelChooserAbortedMsg, of the panel's chooser
ChatAborted ==
    /\ cpAborted
    /\ cpAborted' = FALSE
    /\ choosingModel' = FALSE
    /\ UNCHANGED <<Prompt, inputText, responseView, cpCmd, cpStartMsgs, cpSent>>
    /\ UNCHANGED <<sessVars, rtVars, embVars, uiVars, libVars, pickVars, mcVars>>

\* default case: the StartGenerateMsg reaches Session.Update
ChatStartGenerate ==
    /\ cpStartMsgs > 0
    /\ cpStartMsgs' = cpStartMsgs - 1
    /\ inited
    /\ Accepts(OwnID)
    /\ StartGenerateCase
    /\ lastID' = Noted(OwnID)
    /\ UNCHANGED <<Prompt, inputText, responseView, choosingModel, cpCmd, cpAborted, cpSent>>
    /\ UNCHANGED <<embVars, uiVars, libVars, pickVars, mcVars>>

\* m.responseView.SetContent(m.Session.Response()), case GenerateResponseMsg
Shown(m) == IF m.type = "GenerateResponseMsg" THEN response ELSE responseView

\* a public event of the session reaches the panel
ChatDeliver(m) ==
    /\ DeliverCase(m)
    /\ responseView' = Shown(m)
    /\ UNCHANGED <<Prompt, inputText, choosingModel, cpCmd, cpStartMsgs, cpAborted, cpSent>>
    /\ UNCHANGED <<embVars, uiVars, libVars, pickVars, mcVars>>

\* the session's tea.Sequence runs its next command
ChatSeqStep(s) ==
    /\ SeqStepCase(s)
    /\ responseView' = IF Head(s) = WaitCmd THEN responseView ELSE Shown(Head(s))
    /\ UNCHANGED <<Prompt, inputText, choosingModel, cpCmd, cpStartMsgs, cpAborted, cpSent>>
    /\ UNCHANGED <<embVars, uiVars, libVars, pickVars, mcVars>>

ChatNext ==
    \/ ChatSendKey
    \/ \E v \in InputTexts : ChatTypeKey(v)
    \/ ChatChooseModelKey
    \/ ChatEscWhileChoosing
    \/ ChatAborted
    \/ ChatStartGenerate
    \/ \E m \in msgs : ChatDeliver(m)
    \/ \E s \in seqs : ChatSeqStep(s)
    \/ SessionInit
    \/ \E m \in msgs : UpdateResponse(m)
    \/ \E c \in Cmds : SG_Guard(c)
    \/ \E c \in Cmds : SG_SetFlag(c)
    \/ \E c \in Cmds : SG_SetCtx(c)
    \/ \E c \in Cmds : SG_Issue(c)
    \/ \E c \in Cmds, done \in BOOLEAN, reason \in DoneReasons : CallChunk(c, done, reason)
    \/ \E c \in Cmds : CallFail(c)
    \/ \E c \in Cmds : CallCancelled(c)
    \/ ListenerRecv

ChatInit ==
    /\ SessionNew({"ok"})
    /\ observe = FALSE
    /\ EmbedSessionNew({"ok"})
    /\ NewModelChooser({"ok"})
    /\ NewChatPanel
    /\ NothingDrawn
    /\ NoProcess
    /\ PackageLoaded

ChatSpec == ChatInit /\ [][ChatNext]_vars

\* ======================================================================
\* ollamatea.ChatPanelModel, choosing the model of its Session: the panel
\* with its chooser, the fetches of the chooser and the messages between
\* them.

\* the ChooseModel key, with the fetchListMsg its command sends
PickChooseModelKey ==
    /\ ~panicked
    /\ cpFetchMsgs + mcFetches < MaxFetches
    /\ ChooseModelCase
    /\ cpFetchMsgs' = cpFetchMsgs + 1
    /\ UNCHANGED <<Model, Context, cpSelected, panicked, cpKey>>

\* default case: the fetchListMsg reaches modelChooser.Update
PickFetchList ==
    /\ ~panicked
    /\ cpFetchMsgs > 0
    /\ cpFetchMsgs' = cpFetchMsgs - 1
    /\ FetchListCase(OwnID)
    /\ UNCHANGED <<sessVars, rtVars, embVars, cpVars, uiVars, libVars>>
    /\ UNCHANGED <<Model, Context, cpSelected, panicked, cpKey>>

\* default case: a result of a fetch reaches modelChooser.Update
PickFetchResult(m) ==
    /\ ~panicked
    /\ UpdateFetchResult(m)

\* case tea.KeyMsg while choosing, "enter": the chooser takes the key, and the
\* command it returns sends the ModelChooserSelectedMsg
PickEnter ==
    /\ ~panicked
    /\ choosingModel
    /\ EnterCase
    /\ cpSelected' = cpSelected \cup {mcCmd'[i] : i \in DOMAIN mcCmd'}
    /\ UNCHANGED <<mcHost, listedModels, selectedName, modelItems, modelIndex, isFetching,
                   mcFetches, mcRunning, mcMsgs, mcOp, mcFetched>>
    /\ UNCHANGED <<sessVars, rtVars, embVars, cpVars, uiVars, libVars>>
    /\ UNCHANGED <<Model, Context, cpFetchMsgs, panicked, cpKey>>

\* case tea.KeyMsg while choosing, a key that moves the highlight
PickMove(d) ==
    /\ ~panicked
    /\ choosingModel
    /\ UpdateKeyMove(d)

\* case ModelChooserSelectedMsg, msg.ID = m.modelChooser.ID():
\* m.Session.Model = m.modelChooser.SelectedModel().Model
SelectedCase(m) ==
    /\ choosingModel' = FALSE
    /\ IF selectedModel = NoModel
         THEN /\ panicked' = TRUE
              /\ UNCHANGED Model
         ELSE /\ Model' = selectedModel.Name
              /\ UNCHANGED panicked

\* case ModelChooserSelectedMsg
PickSelected(m) ==
    /\ ~panicked
    /\ m \in cpSelected
    /\ cpSelected' = cpSelected \ {m}
    /\ IF m.ID = OwnID
         THEN SelectedCase(m)
         ELSE UNCHANGED <<choosingModel, Model, panicked>>
    /\ UNCHANGED <<Prompt, inputText, responseView, cpCmd, cpStartMsgs, cpAborted, cpSent>>
    /\ UNCHANGED <<Context, cpFetchMsgs, cpKey>>
    /\ UNCHANGED <<sessVars, rtVars, embVars, mcVars, uiVars, libVars>>

PickNext ==
    \/ PickChooseModelKey
    \/ PickFetchList
    \/ \E m \in mcMsgs : PickFetchResult(m)
    \/ PickEnter
    \/ \E d \in {-1, 1} : PickMove(d)
    \/ \E m \in cpSelected : PickSelected(m)
    \/ ChatEscWhileChoosing
    \/ ChatAborted
    \/ \E n \in 1..MaxFetches, models \in ModelLists : FetchReturns(n, models)
    \/ \E n \in 1..MaxFetches : FetchFails(n)

PickSpec == ChatInit /\ [][PickNext]_vars

\* ======================================================================
\* ollamatea.ChatPanelModel, its key events: case tea.KeyMsg of Update, in
\* both modes.

\* the keys: those the chooser and the panel bind, and any other ("char")
Keys == {"esc", "enter", "up", "down", "send", "choose", "box", "char"}

\* the lists the fetches deliver here: the sizes reported do not differ
KeyLists == {l \in ModelLists : \A i \in 1..Len(l) : l[i].Size = 1}

\* what the textarea holds after a key it takes
KeyTexts == {NoText, "p1"}

\* a bug ToChooser could have: the key goes to the chooser in either mode
ToChooser_Always == TRUE

\* if m.choosingModel: the key goes to the chooser
ToChooser == choosingModel

\* ModelChooser.Update, case tea.KeyMsg, on the fields it can change
ChooserKeyCase(k) ==
    IF k = "esc"
      THEN /\ mcCmd' = <<OutMsg("ModelChooserAbortedMsg", OwnID, NoModel, mcLastError)>>
           /\ UNCHANGED <<selectedModel, mcLastError, modelIndex>>
      ELSE IF k = "enter"
             THEN /\ EnterCase
                  /\ UNCHANGED modelIndex
             ELSE /\ modelIndex' =
                        LET d == IF k = "up" THEN -1 ELSE IF k = "down" THEN 1 ELSE 0
                        IN  IF modelIndex + d \in 0..(Len(modelItems) - 1)
                              THEN modelIndex + d ELSE modelIndex
                  /\ mcCmd' = <<>>
                  /\ UNCHANGED <<selectedModel, mcLastError>>

\* case tea.KeyMsg while choosing: m.modelChooser.Update(msg), whose command
\* sends the ModelChooserAbortedMsg or ModelChooserSelectedMsg
KeyWhileChoosing(k) ==
    /\ ~panicked
    /\ ToChooser
    /\ cpKey' = ~cpKey
    /\ ChooserKeyCase(k)
    /\ cpAborted' = (cpAborted \/ k = "esc")
    /\ cpSelected' = IF k = "enter" THEN cpSelected \cup {mcCmd'[i] : i \in DOMAIN mcCmd'}
                                     ELSE cpSelected
    /\ UNCHANGED <<mcHost, listedModels, selectedName, modelItems, isFetching, mcFetches,
                   mcRunning, mcMsgs, mcOp, mcFetched>>
    /\ UNCHANGED <<Prompt, inputText, responseView, choosingModel, cpCmd, cpStartMsgs, cpSent>>
    /\ UNCHANGED <<sessVars, rtVars, embVars, uiVars, libVars>>
    /\ UNCHANGED <<Model, Context, cpFetchMsgs, panicked>>

\* handleChattingKeyMsg: the send key, the ChooseModel key (whose command
\* sends the fetchListMsg), the keys that resize the input box, and the
\* textarea taking any other key
KeyWhileChatting(k, v) ==
    /\ ~panicked
    /\ ~ToChooser
    /\ cpKey' = ~cpKey
    /\ IF k = "send"
         THEN /\ SendPromptCase
              /\ cpSent' = ~cpSent
              /\ UNCHANGED <<inputText, choosingModel, cpFetchMsgs>>
              /\ UNCHANGED <<selectedModel, selectedName, modelIndex>>
         ELSE IF k = "choose"
                THEN /\ cpFetchMsgs + mcFetches < MaxFetches
                     /\ choosingModel' = TRUE
                     /\ SetSelectionByNameCase(Model)
                     /\ cpFetchMsgs' = cpFetchMsgs + 1
                     /\ UNCHANGED <<Prompt, inputText, response, responseView, cpCmd,
                                    cpStartMsgs, cpSent>>
                ELSE /\ inputText' = IF k = "box" THEN inputText ELSE v
                     /\ UNCHANGED <<Prompt, response, responseView, cpCmd, cpStartMsgs,
                                    cpSent, choosingModel, cpFetchMsgs>>
                     /\ UNCHANGED <<selectedModel, selectedName, modelIndex>>
    /\ UNCHANGED <<mcHost, listedModels, modelItems, isFetching, mcLastError, mcFetches,
                   mcRunning, mcMsgs, mcCmd, mcOp, mcFetched>>
    /\ UNCHANGED <<Host, isGenerating, cancelFunc, ctx, lastError, respCh>>
    /\ UNCHANGED <<rtVars, embVars, uiVars, libVars, cpAborted>>
    /\ UNCHANGED <<Model, Context, cpSelected, panicked>>

KeyNext ==
    \/ \E k \in Keys : KeyWhileChoosing(k)
    \/ \E k \in Keys, v \in KeyTexts :
          /\ k \in {"send", "choose", "box"} => v = NoText
          /\ KeyWhileChatting(k, v)
    \/ PickFetchList
    \/ \E m \in mcMsgs : PickFetchResult(m)
    \/ \E m \in cpSelected : PickSelected(m)
    \/ ChatAborted
    \/ \E n \in 1..MaxFetches, models \in KeyLists : FetchReturns(n, models)
    \/ \E n \in 1..MaxFetches : FetchFails(n)

KeySpec == ChatInit /\ [][KeyNext]_vars

\* ======================================================================
\* View of Session, EmbedSession and ModelChooser.  Each is a function of
\* the fields of its component; the runtime calls it after an Update and
\* puts what it returns on the screen.

\* fmt.Sprintf("ERROR: %s", m.lastError.Error())
ErrorLine(err) == Rendered("ERROR: %s", err, <<>>, <<>>)

\* a bug Session.View could have: the response is rendered whenever there is one
SessionView_ResponseFirst ==
    IF response # <<>>
      THEN Rendered("%s", NoError, response, <<>>)
      ELSE ErrorLine(lastError)

\* Session.View
SessionView ==
    IF lastError # NoError
      THEN ErrorLine(lastError)
      ELSE Rendered("%s", NoError, response, <<>>)

\* EmbedSession.View
EmbedSessionView ==
    IF eLastError # NoError
      THEN ErrorLine(eLastError)
      ELSE Rendered("", NoError, <<>>, <<>>)

\* ModelChooser.View
ModelChooserView ==
    IF mcLastError # NoError
      THEN ErrorLine(mcLastError)
      ELSE IF isFetching
             THEN Rendered("spinner Waiting", NoError, <<>>, <<>>)
             ELSE IF Len(listedModels) = 0
                    THEN Rendered("<empty>", NoError, <<>>, <<>>)
                    ELSE Rendered("modelList", NoError, <<>>, modelItems)

\* the runtime renders a component
ViewSession ==
    /\ screen' = [screen EXCEPT !["Session"] = SessionView]
    /\ UNCHANGED <<sessVars, rtVars, embVars, mcVars, cpVars, cli, libVars, pickVars>>

ViewEmbedSession ==
    /\ screen' = [screen EXCEPT !["EmbedSession"] = EmbedSessionView]
    /\ UNCHANGED <<sessVars, rtVars, embVars, mcVars, cpVars, cli, libVars, pickVars>>

ViewModelChooser ==
    /\ screen' = [screen EXCEPT !["ModelChooser"] = ModelChooserView]
    /\ UNCHANGED <<sessVars, rtVars, embVars, mcVars, cpVars, cli, libVars, pickVars>>

\* the fields the three View read, in the combinations the components reach:
\* an error set by a start command stands beside any response and either
\* flag; the chooser's cast error arises on an empty list, its fetch error
\* keeps the list of an earlier fetch, and a new fetch keeps the error.
\* What View does not read is as constructed.
SessionErrors == {NoError, "transport"}
SessionResponses == {<<>>, ChunkText(1, 1), ChunkText(1, 1) \o ChunkText(1, 2)}
EmbedResponses == {NoResponse, EmbeddingOf(1)}
ChooserErrors == {NoError, "transport", "bad cast"}

ViewInit ==
    /\ Host = "ok"
    /\ isGenerating \in BOOLEAN
    /\ cancelFunc = NilHandle
    /\ ctx = NilHandle
    /\ lastError \in SessionErrors
    /\ response \in SessionResponses
    /\ respCh = <<>>
    /\ inited = TRUE
    /\ cancelled = {}
    /\ sg = [c \in Cmds |-> NewCmd]
    /\ nCmds = 0
    /\ listeners = 1
    /\ msgs = {}
    /\ seqs = {}
    /\ observe = FALSE
    /\ parentLog = <<>>
    /\ stopped = FALSE
    /\ lastID = NilHandle
    /\ eHost = "ok"
    /\ isEmbedding \in BOOLEAN
    /\ eCancelFunc = NilHandle
    /\ eCtx = NilHandle
    /\ eLastError \in SessionErrors
    /\ eResponse \in EmbedResponses
    /\ eCancelled = {}
    /\ se = [c \in Cmds |-> NewCmd]
    /\ eNCmds = 0
    /\ eMsgs = {}
    /\ eApplied = <<>>
    /\ mcHost = "ok"
    /\ mcLastError \in ChooserErrors
    /\ listedModels \in IF mcLastError = "bad cast" THEN {<<>>} ELSE ModelLists
    /\ selectedModel = NoModel
    /\ selectedName = NoName
    /\ modelItems = [i \in 1..Len(listedModels) |->
                        makeModelChooserListItem(i - 1, listedModels[i])]
    /\ modelIndex = 0
    /\ isFetching \in BOOLEAN
    /\ mcFetches = 0
    /\ mcRunning = {}
    /\ mcMsgs = {}
    /\ mcCmd = <<>>
    /\ mcOp = NoOp
    /\ mcFetched = (listedModels # <<>>)
    /\ NewChatPanel
    /\ NothingDrawn
    /\ NoProcess
    /\ PackageLoaded

ViewNext ==
    \/ ViewSession
    \/ ViewEmbedSession
    \/ ViewModelChooser
    \/ ClearError
    \/ EClearError

ViewSpec == ViewInit /\ [][ViewNext]_vars

\* ======================================================================
\* The defaults of the package, loaded by init() at the start of the process.

\* what OLLAMATEA_NOENV is set to, and what the other variables are set to
NoEnvValues == {Unset, "true", "yes", "1", "TRUE", "Yes", "0", "false", "no"}
OverrideValues == {Unset, "from-env"}

Environs ==
    {[n \in DOMAIN NoEnviron |->
        IF n = "OLLAMATEA_NOENV" THEN v ELSE IF EnvName("Host") = n THEN o["Host"]
        ELSE IF EnvName("Model") = n THEN o["Model"]
        ELSE IF EnvName("Prompt") = n THEN o["Prompt"] ELSE o["System"]] :
        v \in NoEnvValues, o \in [Settings -> OverrideValues]}

\* strings.ToLower, on the values drawn
ToLower(str) ==
    CASE str = "TRUE" -> "true"
      [] str = "Yes" -> "yes"
      [] OTHER -> str

\* a bug NoEnv could have: the value is compared as it is
NoEnv_CaseSensitive(environ) ==
    /\ environ["OLLAMATEA_NOENV"] # ""
    /\ environ["OLLAMATEA_NOENV"] \in {"true", "yes", "1"}

\* the kill switch: init() returns before it reads the other variables
NoEnv(environ) ==
    /\ environ["OLLAMATEA_NOENV"] # ""
    /\ ToLower(environ["OLLAMATEA_NOENV"]) \in {"true", "yes", "1"}

\* func init()
PackageInit ==
    /\ ~config.inited
    /\ config' =
         [config EXCEPT
            !.inited = TRUE,
            !.defaults =
                IF NoEnv(config.environ)
                  THEN @
                  ELSE [k \in Settings |->
                          IF config.environ[EnvName(k)] # ""
                            THEN config.environ[EnvName(k)]
                            ELSE @[k]]]
    /\ UNCHANGED <<sessVars, rtVars, embVars, mcVars, cpVars, uiVars, pickVars>>

\* DefaultHost(), DefaultModel(), DefaultPrompt(), DefaultSystemPrompt()
Default(k) == config.defaults[k]

\* os.Setenv after the start of the process
Setenv(n, v) ==
    /\ config.inited
    /\ config' = [config EXCEPT !.environ[n] = v]
    /\ UNCHANGED <<sessVars, rtVars, embVars, mcVars, cpVars, uiVars, pickVars>>

ConfigNext ==
    \/ PackageInit
    \/ \E n \in DOMAIN NoEnviron, v \in OverrideValues : Setenv(n, v)

ConfigInit ==
    /\ SessionNew({"ok"})
    /\ observe = FALSE
    /\ EmbedSessionNew({"ok"})
    /\ NewModelChooser({"ok"})
    /\ NewChatPanel
    /\ NothingDrawn
    /\ NoProcess
    /\ config \in {[environ |-> e, defaults |-> BuiltIn, inited |-> FALSE] : e \in Environs}

ConfigSpec == ConfigInit /\ [][ConfigNext]_vars

\* ======================================================================
\* main of ot-png-prompt, ot-embed and ot-model-chooser: one step for each
\* stretch of main that can end the process.

\* a line printed: the stream, and the format split into its prefix and the rest
Line(stream, prefix, text) == [stream |-> stream, prefix |-> prefix, text |-> text]

\* the stretches of main, in the order main runs them
Stretches(tool) ==
    IF tool = "ot-png-prompt"
      THEN <<"args", "openIn", "readIn", "run", "openOut", "writeOut">>
      ELSE IF tool = "ot-embed"
             THEN <<"args", "openIn", "openOut", "readIn", "run", "check", "writeOut">>
             ELSE <<"args", "run", "check">>

After(tool, pc) ==
    LET q == Stretches(tool)
        i == CHOOSE k \in 1..Len(q) : q[k] = pc
    IN  IF i = Len(q) THEN "exited" ELSE q[i + 1]

\* the stretch is passed
Proceed == cli' = [cli EXCEPT !.pc = After(cli.env.tool, cli.pc)]

\* fmt.Fprintf / fmt.Println of a line, then os.Exit(code); kind is the kind
\* of error that was met, "none" if none was
ExitPrinting(line, code, kind) ==
    cli' = [cli EXCEPT !.pc = "exited", !.out = Append(@, line), !.exit = <<code>>,
                       !.err = kind]

\* the chunks the server streams for the request of ot-png-prompt
Streamed == <<"c1", "c2">>

\* what model.Update of ot-png-prompt prints, chunk by chunk, before it
\* quits: the GenerateResponseMsg of the final chunk comes before the
\* GenerateDoneMsg, that of an earlier chunk is batched and can come before
\* it, after it, or after the program has quit
Printed == {<<"c1", "c2">>, <<"c2", "c1">>, <<"c2">>}

\* bytes written to standard output or to the --out file
Write(to, bytes) == [to |-> to, bytes |-> bytes]

\* outfile: os.Stdout unless --out names a file
Target(env) == IF env.outArg = "" THEN "stdout" ELSE "file"

\* what main has to write after the run: ot-png-prompt the Response() of the
\* model value it passed to tea.NewProgram (the model Run returns is
\* dropped), ot-embed the JSON of the Response() of the model Run returned
MainResult(env) ==
    IF env.tool = "ot-png-prompt" THEN <<>> ELSE <<"json">>

\* outfile.Write of the result, outfile.WriteString("\n"), and main returns
Return ==
    cli' = [cli EXCEPT !.pc = "exited", !.exit = <<0>>,
                       !.data = @ \o <<Write(Target(cli.env), MainResult(cli.env)),
                                       Write(Target(cli.env), <<"\n">>)>>]

\* what the program's Update gets at the end of the request: ot-png-prompt
\* the session's GenerateDoneMsg or what startGenerating returned on a
\* failure, ot-embed the result message of startEmbedding
FinalMsg(env) ==
    IF env.tool = "ot-png-prompt"
      THEN IF env.backend = "ok"
             THEN Msg("GenerateDoneMsg", OwnID, <<>>, TRUE, "stop", <<>>)
             ELSE StartErrorResult(OwnID, "transport")
      ELSE IF env.backend = "ok"
             THEN makeEmbedResponseMsg(OwnID, EmbeddingOf(1), 1)
             ELSE makeEmbedErrorMsg(OwnID, "transport", 1)

\* model.Update returns tea.Quit
Quits(m) == m.type \in {"GenerateDoneMsg", "EmbedResponseMsg", "EmbedErrorMsg"}

\* pflag.Parse, --help, the required argument
MainArgs ==
    /\ cli.pc = "args"
    /\ IF cli.env.help
         THEN ExitPrinting(Line("stdout", "", "usage"), 0, "none")
         ELSE IF cli.env.tool # "ot-model-chooser" /\ cli.env.inArg = ""
                THEN ExitPrinting(Line("stderr", "ERROR: ",
                                       IF cli.env.tool = "ot-png-prompt"
                                         THEN "missing required argument: --out"
                                         ELSE "missing required argument: --in"),
                                  1, "argument")
                ELSE Proceed
    /\ UNCHANGED <<sessVars, rtVars, embVars, mcVars, cpVars, screen, libVars, pickVars>>

\* os.OpenFile of the input, unless it is stdin
MainOpenInput ==
    /\ cli.pc = "openIn"
    /\ IF cli.env.inArg # "-" /\ cli.env.openIn = "err"
         THEN ExitPrinting(Line("stderr", "ERROR: ", "failed to open input file %s"), 1, "io")
         ELSE Proceed
    /\ UNCHANGED <<sessVars, rtVars, embVars, mcVars, cpVars, screen, libVars, pickVars>>

\* io.ReadAll of the input
MainReadInput ==
    /\ cli.pc = "readIn"
    /\ IF cli.env.readIn = "err"
         THEN ExitPrinting(Line("stderr", "ERROR: ", "failed to read file %s"), 1, "io")
         ELSE Proceed
    /\ UNCHANGED <<sessVars, rtVars, embVars, mcVars, cpVars, screen, libVars, pickVars>>

\* os.OpenFile of the output, unless it is stdout
MainOpenOutput ==
    /\ cli.pc = "openOut"
    /\ IF cli.env.outArg # "" /\ cli.env.openOut = "err"
         THEN ExitPrinting(Line("stderr", "ERROR: ", "failed to open output file %s"), 1, "io")
         ELSE Proceed
    /\ UNCHANGED <<sessVars, rtVars, embVars, mcVars, cpVars, screen, libVars, pickVars>>

\* tea.NewProgram(m).Run() of ot-png-prompt and ot-embed: it returns when
\* Update returns tea.Quit, or with an error; while neither happens main
\* stays in it
MainRun ==
    /\ cli.pc = "run"
    /\ cli.env.tool # "ot-model-chooser"
    /\ IF cli.env.run = "err"
         THEN ExitPrinting(Line("stdout", "Error running program: ", "%v"), 1, "run")
         ELSE IF Quits(FinalMsg(cli.env))
                THEN IF cli.env.tool = "ot-png-prompt"
                       THEN \E p \in Printed :
                              cli' = [cli EXCEPT
                                        !.pc = After(cli.env.tool, cli.pc),
                                        !.data = @ \o [i \in 1..Len(p) |->
                                                         Write("stdout", <<p[i]>>)]]
                       ELSE Proceed
                ELSE cli' = [cli EXCEPT !.pc = "blocked", !.err = "backend"]
    /\ UNCHANGED <<sessVars, rtVars, embVars, mcVars, cpVars, screen, libVars, pickVars>>

\* tea.NewProgram(m).Run() of ot-model-chooser
MainRunChooser ==
    /\ cli.pc = "run"
    /\ cli.env.tool = "ot-model-chooser"
    /\ IF cli.env.run = "err"
         THEN ExitPrinting(Line("stderr", "ERROR: ", "%s"), 1, "run")
         ELSE Proceed
    /\ UNCHANGED <<sessVars, rtVars, embVars, mcVars, cpVars, screen, libVars, pickVars>>

\* ot-embed: resp == nil after the run
MainCheckEmbed ==
    /\ cli.pc = "check"
    /\ cli.env.tool = "ot-embed"
    /\ IF FinalMsg(cli.env).Response = NoResponse
         THEN IF FinalMsg(cli.env).Error # NoError
                THEN ExitPrinting(Line("stderr", "Embedding failed: ", "%s"), 1, "backend")
                ELSE ExitPrinting(Line("stderr", "", "no embedding response"), 1, "backend")
         ELSE Proceed
    /\ UNCHANGED <<sessVars, rtVars, embVars, mcVars, cpVars, screen, libVars, pickVars>>

\* ot-model-chooser after the run: the chooser's fetch failed or listed the
\* models; enter on a listed model sends the ModelChooserSelectedMsg, esc the
\* ModelChooserAbortedMsg with the chooser's last error, ctrl+c quits
MainCheckChooser ==
    /\ cli.pc = "check"
    /\ cli.env.tool = "ot-model-chooser"
    /\ IF cli.env.key = "esc" /\ cli.env.backend = "err"
         THEN ExitPrinting(Line("stderr", "Chooser Aborted: ", "%s"), 1, "backend")
         ELSE IF cli.env.key = "enter" /\ cli.env.backend = "ok"
                THEN cli' = [cli EXCEPT !.pc = "exited", !.exit = <<0>>,
                                        !.out = Append(@, Line("stdout", "Selected:   ", "%s  %s"))]
                ELSE cli' = [cli EXCEPT !.pc = "exited", !.exit = <<0>>,
                                        !.out = Append(@, Line("stderr", "", "No selection")),
                                        !.err = IF cli.env.backend = "err"
                                                  THEN "backend" ELSE "none"]
    /\ UNCHANGED <<sessVars, rtVars, embVars, mcVars, cpVars, screen, libVars, pickVars>>

\* outfile.Write of the result, and the return of main
MainWriteOutput ==
    /\ cli.pc = "writeOut"
    /\ IF cli.env.writeOut = "err"
         THEN ExitPrinting(Line("stderr", "ERROR: ",
                                IF cli.env.tool = "ot-png-prompt"
                                  THEN "failed to write prompt %s"
                                  ELSE "failed to write response %s"), 1, "io")
         ELSE Return
    /\ UNCHANGED <<sessVars, rtVars, embVars, mcVars, cpVars, screen, libVars, pickVars>>

MainNext ==
    \/ MainArgs
    \/ MainOpenInput
    \/ MainReadInput
    \/ MainOpenOutput
    \/ MainRun
    \/ MainRunChooser
    \/ MainCheckEmbed
    \/ MainCheckChooser
    \/ MainWriteOutput

MainInit ==
    /\ SessionNew({"ok"})
    /\ observe = FALSE
    /\ EmbedSessionNew({"ok"})
    /\ NewModelChooser({"ok"})
    /\ NewChatPanel
    /\ NothingDrawn
    /\ cli \in {Process(env) : env \in Envs}
    /\ PackageLoaded

MainSpec == MainInit /\ [][MainNext]_vars

\* main is one goroutine: while it can take its next step, it takes it
FairMainSpec == MainSpec /\ WF_vars(MainNext)

\* ======================================================================
\* Properties

\* a request is active: issued to the transport, not returned, not cancelled
Active(c) == sg[c].pc = "call" /\ sg[c].callCtx \notin cancelled

ActiveCalls == {c \in Cmds : Active(c)}

\* C1: in every reachable state at most one generation request of the session
\* is active.
C1_AtMostOneActive == Cardinality(ActiveCalls) <= 1

RECURSIVE Concat(_)
Concat(ss) == IF ss = <<>> THEN <<>> ELSE Head(ss) \o Concat(Tail(ss))

\* the request a public event belongs to: the one whose chunk it carries last
RequestOf(m) == m.Response[Len(m.Response)][1]

\* the texts of the GenerateResponseMsg events of request c, in delivery order
PartialsOf(c) ==
    LET sel == SelectSeq(parentLog,
                   LAMBDA m : m.type = "GenerateResponseMsg" /\ RequestOf(m) = c)
    IN  [i \in 1..Len(sel) |-> sel[i].Response]

Quiescent ==
    /\ msgs = {}
    /\ seqs = {}
    /\ respCh = <<>>
    /\ \A c \in Cmds : sg[c].pc \in {"none", "done"}

\* C3: once every event has been delivered, the Response of every delivered
\* GenerateDoneMsg is the concatenation, in delivery order, of the Response of
\* the GenerateResponseMsg events delivered for the same request.
C3_DoneIsConcatenation ==
    Quiescent =>
        \A p \in 1..Len(parentLog) :
            parentLog[p].type = "GenerateDoneMsg" =>
                parentLog[p].Response = Concat(PartialsOf(RequestOf(parentLog[p])))

\* C4: what a failed generation sends to the event loop is a GenerateDoneMsg
\* with the session's ID, an empty Response and the error text as DoneReason.
C4_FailureSendsDoneMsg ==
    \A m \in msgs :
        m.DoneReason \in {"parse", "transport"} =>
            /\ m.type = "GenerateDoneMsg"
            /\ m.ID = OwnID
            /\ m.Response = <<>>

\* C5: when a generation fails at the host URL or at the transport call, the
\* in-progress flag is false and the last error is that failure.
C5_FailureClearsFlag ==
    [][\A c \in Cmds :
         (sg[c].pc # "done" /\ sg'[c].pc = "done" /\ sg'[c].err \in {"parse", "transport"}) =>
             /\ isGenerating' = FALSE
             /\ lastError' = sg'[c].err]_vars

\* C6: after a StopGenerateMsg of its own ID and no StartGenerateMsg since, the
\* session has no active request and is not generating.
C6_StoppedStaysIdle == stopped => (~isGenerating /\ ActiveCalls = {})

\* C7: applying a chunk with Done, Update clears the in-progress flag and emits
\* a GenerateDoneMsg with the session's ID, the accumulated response including
\* the chunk's text, and the chunk's DoneReason and Context.
C7_DoneChunkEmitsDone ==
    [][\A m \in msgs :
         (m.type = "generateResponseMsg" /\ m.Done /\ m \notin msgs') =>
             /\ isGenerating' = FALSE
             /\ response' = response \o m.Response
             /\ \E s \in seqs' \ seqs :
                    /\ Len(s) = 3
                    /\ s[1] = Msg("GenerateResponseMsg", OwnID, m.Response, FALSE, "", <<>>)
                    /\ s[2] = Msg("GenerateDoneMsg", OwnID, response \o m.Response, FALSE,
                                  m.DoneReason, m.Context)
                    /\ s[3] = WaitCmd]_vars

\* C7 witness: a GenerateDoneMsg is being emitted whose Response holds an
\* earlier chunk and the final one.
C7_Witness ==
    \E s \in seqs :
        /\ Len(s) = 3
        /\ s[2].type = "GenerateDoneMsg"
        /\ Len(s[2].Response) >= 2
        /\ s[2].Response = response
        /\ s[2].DoneReason = "length"
        /\ ~isGenerating

\* the listeners of the response channel: blocked on it, carrying a chunk to
\* the event loop, or last in a tea.Sequence still running
ChunksInFlight == {m \in msgs : m.type = "generateResponseMsg"}

Rearming == {s \in seqs : \E i \in 1..Len(s) : s[i] = WaitCmd}

Listening == listeners + Cardinality(ChunksInFlight) + Cardinality(Rearming)

\* C8: once the command of Session.Init is dispatched there is exactly one
\* listener of the response channel at all times, and every queued chunk is
\* eventually handed to Update.
C8_OneListener ==
    /\ [](Listening = IF inited THEN 1 ELSE 0)
    /\ (inited /\ respCh # <<>>) ~> (respCh = <<>> /\ ChunksInFlight = {})

\* C8 witness: chunks are queued while the one listener is carrying an earlier
\* chunk, after a final chunk has already re-armed it.
C8_Witness ==
    /\ inited
    /\ respCh # <<>>
    /\ ChunksInFlight # {}
    /\ listeners = 0
    /\ \E c \in Cmds : sg[c].pc = "done" /\ sg[c].sent > 0 /\ sg[c].err = NoError

\* C9: a result Update applies is the result of the call of the latest
\* StartEmbedMsg: the result of a superseded call is not applied.
C9_OnlyLatestApplied ==
    \A i \in 1..Len(eApplied) : eApplied[i].call = eApplied[i].latest

\* C10: handling an EmbedResponseMsg stores its response and clears the error;
\* handling an EmbedErrorMsg clears the response and stores its error.
C10_ResultApplied ==
    [][\A m \in eMsgs :
         m \notin eMsgs' =>
             IF m.type = "EmbedResponseMsg"
               THEN eResponse' = m.Response /\ eLastError' = NoError
               ELSE eResponse' = NoResponse /\ eLastError' = m.Error]_vars

\* C10 witness: a response was applied, then an error: the response is gone and
\* the error stored.
C10_Witness ==
    /\ Len(eApplied) = 2
    /\ eApplied[1].Error = NoError
    /\ eApplied[2].Error = "transport"
    /\ eResponse = NoResponse
    /\ eLastError = "transport"

\* a step of Update's StopEmbedMsg case that changes the session: no command
\* is returned or advanced, no result taken, and the flag, handle or context
\* changes
StopEmbedStep ==
    /\ se' = se
    /\ eNCmds' = eNCmds
    /\ eMsgs' = eMsgs
    /\ <<isEmbedding, eCancelFunc, eCtx>>' # <<isEmbedding, eCancelFunc, eCtx>>

\* C11: handling a StopEmbedMsg of the session's own ID invokes the cancel
\* function if one is held, leaves isEmbedding false, and leaves the response
\* and the last error as they were.
C11_StopKeepsResult ==
    [][StopEmbedStep =>
         /\ eCancelFunc # NilHandle => eCancelFunc \in eCancelled'
         /\ eCancelFunc' = NilHandle
         /\ isEmbedding' = FALSE
         /\ eResponse' = eResponse
         /\ eLastError' = eLastError]_vars

\* C11 witness: the only start's call returned its response, which was applied;
\* the stop then invoked the handle still held and the response is still there.
C11_Witness ==
    /\ eNCmds = 1
    /\ eCancelled = {1}
    /\ eCancelFunc = NilHandle
    /\ ~isEmbedding
    /\ eResponse = EmbeddingOf(1)
    /\ eLastError = NoError

\* C18: a StartGenerateMsg, StopGenerateMsg or generateResponseMsg of another
\* ID changes no field of the session (flag, handle, context, response, last
\* error, channel) and returns no command (no start command, no listener, no
\* sequence, no event sent).
C18_ForeignIDIgnored ==
    [][(lastID' = OtherID /\ lastID # OtherID) =>
         /\ UNCHANGED <<isGenerating, cancelFunc, ctx, lastError, response, respCh>>
         /\ UNCHANGED <<cancelled, sg, nCmds, listeners, msgs, seqs>>]_vars

\* C18 witness: a message of another ID was handled while a generation was
\* under way with text accumulated; the session still holds all of it.
C18_Witness ==
    /\ lastID = OtherID
    /\ isGenerating
    /\ cancelFunc # NilHandle
    /\ response # <<>>
    /\ ActiveCalls # {}

\* C12: a name asked for with SetSelectionByName before any list was fetched
\* is resolved by the first fetch that succeeds: if the fetched list has an
\* entry of that name the highlight is on it and the name stays the selected
\* name; if it has none, the selected model is nil.
C12_PendingSelectionResolved ==
    [][\A m \in mcMsgs :
         (/\ m \notin mcMsgs'
          /\ m.type = "FetchModelListResponseMsg"
          /\ m.ID = OwnID
          /\ ~mcFetched) =>
             IF \E i \in 1..Len(m.Models) : m.Models[i].Name = selectedName
               THEN /\ modelIndex' < Len(modelItems')
                    /\ modelItems'[modelIndex' + 1].title = selectedName
                    /\ listedModels'[modelIndex' + 1].Name = selectedName
                    /\ selectedName' = selectedName
               ELSE selectedModel' = NoModel]_vars

\* C12 witness: the name was asked for before the only fetch returned; the
\* fetched list has it as its second entry and the highlight is there.
C12_Witness ==
    /\ mcFetches = 1
    /\ mcFetched
    /\ mcOp.op = "SetSelectionByName"
    /\ mcOp.arg = selectedName
    /\ selectedName # NoName
    /\ selectedModel = NoModel
    /\ Len(listedModels) = 2
    /\ modelIndex = 1
    /\ listedModels[2].Name = selectedName

\* C13: a fetchListMsg, FetchModelListResponseMsg or FetchModelListErrorMsg of
\* another ID leaves the list, the selection, the last error and the fetching
\* flag as they were and returns no command.
C13_ForeignFetchIgnored ==
    [][(\/ \E m \in mcMsgs : m.ID # OwnID /\ m \notin mcMsgs'
        \/ mcOp'.tick # mcOp.tick /\ mcOp'.op = "fetchListMsg" /\ mcOp'.arg # OwnID) =>
           /\ UNCHANGED <<listedModels, selectedModel, selectedName, modelItems, modelIndex>>
           /\ UNCHANGED <<mcLastError, isFetching, mcFetches, mcRunning>>
           /\ mcCmd' = <<>>]_vars

\* C13 witness: the response of another chooser's fetch was handled while this
\* chooser was fetching, holding a list of its own that is not the other's.
C13_Witness ==
    /\ mcOp.op = "FetchModelListResponseMsg"
    /\ mcOp.arg = OtherID
    /\ isFetching
    /\ Len(listedModels) = 2
    /\ selectedModel # NoModel

\* C14: handling a FetchModelListErrorMsg of its own ID stores the error,
\* clears the fetching flag and leaves the list, the selected model and the
\* selected name as they were.
C14_FetchErrorKeepsList ==
    [][\A m \in mcMsgs :
         (m \notin mcMsgs' /\ m.type = "FetchModelListErrorMsg" /\ m.ID = OwnID) =>
             /\ mcLastError' = m.Error
             /\ isFetching' = FALSE
             /\ UNCHANGED <<listedModels, selectedModel, selectedName>>]_vars

\* C14 witness: a fetch failed after an earlier one had delivered a list in
\* which a model was selected.
C14_Witness ==
    /\ mcLastError = "transport"
    /\ ~isFetching
    /\ mcFetches = 2
    /\ mcRunning = {}
    /\ mcMsgs = {}
    /\ listedModels # <<>>
    /\ selectedModel # NoModel
    /\ selectedName # NoName

C16_SetSelectionByName ==
    [][(mcOp'.tick # mcOp.tick /\ mcOp'.op = "SetSelectionByName") =>
         IF ~mcFetched
           THEN /\ mcOp'.ret = TRUE
                /\ selectedName' = mcOp'.arg
                /\ UNCHANGED <<selectedModel, modelIndex>>
           ELSE /\ mcOp'.ret = (Named(mcOp'.arg) # {})
                /\ mcOp'.ret => selectedModel' \in {listedModels[i] : i \in Named(mcOp'.arg)}
                /\ ~mcOp'.ret => UNCHANGED <<selectedModel, selectedName>>]_vars

\* C17: the send key in chat mode changes nothing and returns no command when
\* the input is empty or equal to Session.Prompt; otherwise it stores the
\* input as Session.Prompt, clears the session's response and the response
\* view, and returns the StartGenerateMsg of the session.
C17_SendPrompt ==
    [][cpSent' # cpSent =>
         IF inputText = NoText \/ inputText = Prompt
           THEN /\ UNCHANGED <<sessVars, rtVars>>
                /\ UNCHANGED <<Prompt, inputText, responseView, choosingModel, cpStartMsgs>>
                /\ cpCmd' = <<>>
           ELSE /\ Prompt' = inputText
                /\ response' = <<>>
                /\ responseView' = <<>>
                /\ cpCmd' = <<StartMsgCmd>>
                /\ cpStartMsgs' = cpStartMsgs + 1]_vars

\* C17 witness: the first generation has run to its end and all of its text
\* was accumulated and shown; a second prompt was then sent, and response
\* and view are empty while its StartGenerateMsg is on its way.
C17_Witness ==
    /\ nCmds = 1
    /\ sg[1].pc = "done"
    /\ sg[1].sent = MaxChunks
    /\ respCh = <<>>
    /\ msgs = {}
    /\ seqs = {}
    /\ cpStartMsgs = 1
    /\ cpCmd = <<StartMsgCmd>>
    /\ Prompt = "p2"
    /\ response = <<>>
    /\ responseView = <<>>

\* C19: whenever the last error of a Session, an EmbedSession or a
\* ModelChooser is set, its View returns "ERROR: " followed by the text of
\* the error, whatever the response, the fetching flag and the list are.
C19_ErrorRendered ==
    /\ lastError # NoError => SessionView = ErrorLine(lastError)
    /\ eLastError # NoError => EmbedSessionView = ErrorLine(eLastError)
    /\ mcLastError # NoError => ModelChooserView = ErrorLine(mcLastError)

\* C19 witness: all three components were rendered with their error set,
\* the session holding a response, the embed session an embedding, the
\* chooser a list and a fetch in progress; the screen shows the three errors.
C19_Witness ==
    /\ lastError = "transport" /\ response # <<>>
    /\ eLastError = "transport" /\ eResponse # NoResponse
    /\ mcLastError = "transport" /\ isFetching /\ Len(listedModels) = MaxModels
    /\ screen["Session"] = ErrorLine("transport")
    /\ screen["EmbedSession"] = ErrorLine("transport")
    /\ screen["ModelChooser"] = ErrorLine("transport")

\* C20: a tool that has exited did so with status 0 if it met no error, and
\* with status 1 after printing a line "ERROR: <message>" to standard error
\* if it met an argument, I/O, run or backend error; and no tool stays
\* blocked in its run.
C20_ExitStatus ==
    /\ cli.pc # "blocked"
    /\ cli.pc = "exited" =>
         IF cli.err = "none"
           THEN cli.exit = <<0>>
           ELSE /\ cli.exit = <<1>>
                /\ \E i \in DOMAIN cli.out :
                     cli.out[i].stream = "stderr" /\ cli.out[i].prefix = "ERROR: "

\* what init() is to leave in the default of setting k, given the environment
\* it ran in and whether that environment switches the loading off
Loaded(environ, off, k) ==
    IF ~off /\ environ[EnvName(k)] # "" THEN environ[EnvName(k)] ELSE BuiltIn[k]

InitStep == ~config.inited /\ config'.inited

\* C21 as stated: each Default* returns the built-in value, replaced by the
\* value of its variable when that is non-empty, unless OLLAMATEA_NOENV is
\* exactly true, yes or 1.
C21_DefaultsAsStated ==
    [][InitStep =>
         \A k \in Settings :
            Default(k)' = Loaded(config.environ,
                                 config.environ["OLLAMATEA_NOENV"] \in {"true", "yes", "1"}, k)]_vars

\* C21 amended: each Default* returns the built-in value, replaced by the
\* value of its variable when that is non-empty, unless OLLAMATEA_NOENV, in
\* lower case, is true, yes or 1; and the defaults are those of the
\* environment init() ran in, whatever the environment becomes later.
C21_Defaults ==
    [][/\ InitStep =>
          \A k \in Settings :
             Default(k)' = Loaded(config.environ,
                                  ToLower(config.environ["OLLAMATEA_NOENV"])
                                      \in {"true", "yes", "1"}, k)
       /\ config.inited => config'.defaults = config.defaults]_vars

\* C21 witness: init() ran with OLLAMATEA_NOENV=TRUE and all four variables
\* set, and the defaults are the built-in ones.
C21_Witness ==
    /\ config.inited
    /\ config.environ["OLLAMATEA_NOENV"] = "TRUE"
    /\ \A k \in Settings : config.environ[EnvName(k)] = "from-env"
    /\ config.defaults = BuiltIn

\* the fields of the Session the next statement of start command c writes,
\* on the goroutine of the command
WrittenByCmd(c) ==
    CASE sg[c].pc = "flag" -> {"isGenerating"}
      [] sg[c].pc = "ctx" -> {"ctx", "cancelFunc"}
      [] sg[c].pc = "issue" /\ Host = "bad" -> {"lastError", "isGenerating"}
      [] sg[c].pc = "issue" /\ Host # "bad" /\ ctx = NilHandle -> {"lastError"}
      [] sg[c].pc = "call" /\ sg[c].callCtx \in cancelled -> {"lastError"}
      [] OTHER -> {}

\* the fields the Start and Stop cases of Update read and write; the event
\* loop can be in either whenever the program runs
AccessedByUpdate == IF inited THEN {"isGenerating", "cancelFunc", "ctx"} ELSE {}

\* C23: no start command is about to write, from its goroutine, a field that
\* an Update call the event loop can make at the same time reads or writes.
C23_NoConcurrentAccess ==
    \A c \in Cmds : WrittenByCmd(c) \cap AccessedByUpdate = {}

\* the texts of the chunks of a queue, in its order
TextsOf(q) == Concat([i \in 1..Len(q) |-> q[i].Response])

\* the text of the chunk a listener is carrying to Update
CarriedText == IF ChunksInFlight = {} THEN <<>> ELSE (CHOOSE m \in ChunksInFlight : TRUE).Response

\* what Response() is, followed by what is still to be applied, in the order
\* of application
Pipeline == response \o CarriedText \o TextsOf(respCh)

ChunkNoOf(m) == m.Response[Len(m.Response)][2]

\* C25: of two GenerateResponseMsg of one generation the parent gets the one
\* with the earlier chunk first, and it gets no GenerateResponseMsg of a
\* generation after the GenerateDoneMsg of that generation.
C25_EventsInOrder ==
    \A p, q \in 1..Len(parentLog) :
        (/\ p < q
         /\ parentLog[q].type = "GenerateResponseMsg") =>
            /\ (/\ parentLog[p].type = "GenerateResponseMsg"
                /\ RequestOf(parentLog[p]) = RequestOf(parentLog[q])) =>
                    ChunkNoOf(parentLog[p]) < ChunkNoOf(parentLog[q])
            /\ parentLog[p].type = "GenerateDoneMsg" =>
                    parentLog[p].Context[1] # RequestOf(parentLog[q])

\* C26: the Update that handles a StopGenerateMsg of the session's ID leaves
\* the handle and the context nil and the flag false, having invoked the
\* handle it held; response, last error, prompt, model and context tokens
\* are as before, and no command is returned: no start command, listener,
\* message or sequence is added.
C26_StopFrame ==
    [][(~stopped /\ stopped') =>
         /\ cancelFunc' = NilHandle /\ ctx' = NilHandle /\ ~isGenerating'
         /\ cancelFunc # NilHandle => cancelFunc \in cancelled'
         /\ UNCHANGED <<response, lastError, Prompt, Model, Context, Host, respCh>>
         /\ UNCHANGED <<sg, nCmds, listeners, msgs, seqs>>]_vars

\* C26 witness: a stop was handled that cancelled a call, with a response
\* accumulated and the session idle since.
C26_Witness ==
    /\ stopped
    /\ nCmds = 1
    /\ 1 \in cancelled
    /\ ~isGenerating
    /\ cancelFunc = NilHandle
    /\ response = ChunkText(1, 1)
    /\ sg[1].sent = 1
    /\ respCh = <<>>
    /\ msgs = {}

\* the ModelChooserSelectedMsg of the panel's chooser that a step takes
SelectedTaken == {m \in cpSelected : m \notin cpSelected' /\ m.ID = OwnID}

\* C27: when the panel handles a ModelChooserSelectedMsg of its chooser, the
\* chooser holds a selection (nothing nil is dereferenced) and Session.Model
\* becomes the model of the entry the message carries.
C27_SelectedApplied ==
    [][\A m \in SelectedTaken :
          /\ selectedModel # NoModel
          /\ ~panicked'
          /\ Model' = m.Selection.Name]_vars

\* the commands whose call, its context cancelled, returns in a step
CancelledReturns ==
    {c \in Cmds : /\ sg[c].pc = "call"
                  /\ sg[c].callCtx \in cancelled
                  /\ sg'[c].pc = "done"}

\* C28: when a call whose context a stop or a superseding start cancelled
\* returns, the session does not come to report the cancellation error, and a
\* response it had stored is not cleared.
C28_CancelledCallSilent ==
    [][CancelledReturns # {} =>
          /\ lastError' # "canceled"
          /\ response # <<>> => response' # <<>>]_vars

\* C29: a step in which Update takes an EmbedResponseMsg or EmbedErrorMsg of
\* another session's ID changes neither Response() nor Error().
C29_ForeignResultIgnored ==
    [][\A m \in eMsgs :
         (m \notin eMsgs' /\ m.ID # OwnID) =>
             /\ eResponse' = eResponse
             /\ eLastError' = eLastError]_vars

\* the chunks of the session that Update takes in a step
ChunksTaken == {m \in msgs : m.type = "generateResponseMsg" /\ m \notin msgs'}

\* C30: between the handling of a StopGenerateMsg and the handling of the next
\* StartGenerateMsg, a chunk that reaches Update is not appended to the
\* response and produces no GenerateResponseMsg and no GenerateDoneMsg.
C30_QuietOnceStopped ==
    [][(stopped /\ ChunksTaken # {}) =>
          /\ response' = response
          /\ msgs' \subseteq msgs
          /\ seqs' = seqs]_vars

\* the calls of startEmbedding that are under way: the flag is set and the
\* call has not returned, or its result has not been applied yet
EmbedInFlight ==
    {c \in Cmds : \/ se[c].pc \in {"ctx", "issue", "call"}
                  \/ \E m \in eMsgs : m.ID = OwnID /\ m.call = c}

\* C31: IsEmbedding() is true only while a call is under way: once the result
\* of every call has been applied it is false.
C31_EmbeddingOnlyInFlight ==
    isEmbedding => EmbedInFlight # {}

\* the successful results of the chooser's fetches that Update takes in a step
ListsTaken ==
    {m \in mcMsgs : /\ m \notin mcMsgs'
                    /\ m.type = "FetchModelListResponseMsg"
                    /\ m.ID = OwnID}

\* C32: after every step SelectedModel() is nil or an entry of the stored
\* list, and a step that stores a fetched list in which the selection is found
\* leaves SelectedModel() the entry found in that list.
C32_SelectionInList ==
    [][/\ selectedModel' # NoModel =>
             \E i \in 1..Len(listedModels') : listedModels'[i] = selectedModel'
       /\ \A m \in ListsTaken :
             SelectedIndexOf(m.Models) >= 0 =>
                 selectedModel' = m.Models[SelectedIndexOf(m.Models) + 1]]_vars

\* the places of the name n in the list models
PlacesOf(n, models) == {i \in 1..Len(models) : models[i].Name = n}

\* C33: with entry X confirmed, a step that stores a fetched list holding an
\* entry named X leaves the highlight on that entry and X the selected name.
C33_ConfirmedStaysSelected ==
    [][\A m \in ListsTaken :
          (/\ selectedModel # NoModel
           /\ PlacesOf(selectedModel.Name, m.Models) # {}) =>
               /\ modelIndex' + 1 \in PlacesOf(selectedModel.Name, m.Models)
               /\ selectedName' = selectedModel.Name]_vars

\* the list requests of the chooser whose result has not been applied: the
\* fetches that run, and those whose result waits for Update
FetchesPending ==
    mcRunning \cup {m.req : m \in {x \in mcMsgs : x.ID = OwnID}}

\* C34: IsFetching() is true exactly while a list request of the chooser has
\* not had its result applied.
C34_FetchingWhilePending ==
    isFetching <=> FetchesPending # {}

\* C35: a key handled while choosingModel is set changes neither the text
\* input nor Session.Prompt nor the response, and returns no command of the
\* chat handling (no StartGenerateMsg, no fetchListMsg); a key handled while
\* it is clear does not reach ModelChooser.Update: no command of the chooser,
\* no error of it, and the selection changes only by the ChooseModel key.
C35_KeysRouted ==
    [][cpKey' # cpKey =>
          IF choosingModel
            THEN /\ UNCHANGED <<inputText, Prompt, response, responseView>>
                 /\ UNCHANGED <<cpCmd, cpStartMsgs, cpFetchMsgs, cpSent, choosingModel>>
            ELSE /\ UNCHANGED <<mcCmd, mcLastError, cpAborted, cpSelected>>
                 /\ ~choosingModel' => UNCHANGED <<selectedModel, selectedName, modelIndex>>]_vars

\* C35 witness: keys were handled in both modes: a prompt was sent from the
\* chat input, and with the chooser open again an entry was confirmed.
C35_Witness ==
    /\ cpKey
    /\ choosingModel
    /\ Prompt = "p1"
    /\ cpStartMsgs = 1
    /\ cpSelected # {}
    /\ inputText = "p1"

\* C36: enter without a highlighted item returns no command, leaves the
\* selected model as it is and records an error as LastError().
C36_EnterWithoutItem ==
    [][(/\ mcOp'.tick # mcOp.tick
        /\ mcOp'.op = "enter"
        /\ ~HasSelectedItem) =>
           /\ mcCmd' = <<>>
           /\ selectedModel' = selectedModel
           /\ mcLastError' # NoError]_vars

\* C36 witness: an empty list was fetched, which cleared the error, and enter
\* was pressed: the error is recorded and no message is returned.
C36_Witness ==
    /\ mcOp.op = "enter"
    /\ mcFetched
    /\ listedModels = <<>>
    /\ mcCmd = <<>>
    /\ mcLastError = "bad cast"

C37_EventuallyQuits ==
    (/\ cli.pc = "run"
     /\ cli.env.tool \in {"ot-png-prompt", "ot-embed"}
     /\ cli.env.run = "ok") ~> (cli.pc \notin {"run", "blocked"})

\* all that was written to a stream, in order
RECURSIVE WrittenTo(_, _)
WrittenTo(to, w) ==
    IF w = <<>> THEN <<>>
    ELSE (IF Head(w).to = to THEN Head(w).bytes ELSE <<>>) \o WrittenTo(to, Tail(w))

\* C38: when ot-png-prompt has returned from main after a successful
\* generation, the selected output holds the chunks received, in order, and a
\* newline after them.
C38_ResponseWritten ==
    (/\ cli.pc = "exited"
     /\ cli.env.tool = "ot-png-prompt"
     /\ ~cli.env.help
     /\ cli.env.backend = "ok"
     /\ cli.exit = <<0>>) =>
        WrittenTo(Target(cli.env), cli.data) = Streamed \o <<"\n">>

====
